---------------------------- MODULE Spec2Model ----------------------------
(***************************************************************************)
(* FaxFinity: the document classification and filing pipeline of           *)
(* src/FaxFinity_Portable/faxsort_ai.py.                                   *)
(*                                                                         *)
(* File names and text fields are Python strings; they are modelled as     *)
(* sequences of one-character strings, so that prefixing, splitext,        *)
(* sorting and the uniqueness counter act on the characters as the code    *)
(* does.  A folder is a function from the names of the files in it to the  *)
(* document each file holds.                                               *)
(***************************************************************************)
EXTENDS Integers, Sequences, FiniteSets, TLC

(***************************************************************************)
(* Bounds of the model.                                                    *)
(***************************************************************************)
\* number of files that arrive in the inbound folder
MaxDocs == 2
\* number of process_single_pdf invocations over all scans
MaxRuns == 2

(***************************************************************************)
(* Strings.                                                                *)
(***************************************************************************)
\* The printable ASCII characters in code point order, from 32 (space).  The
\* grave accent (96) cannot be written in a string here; a name holds its place.
Ascii ==
  << " ", "!", "\"", "#", "$", "%", "&", "'", "(", ")", "*", "+", ",", "-", ".", "/",
     "0", "1", "2", "3", "4", "5", "6", "7", "8", "9", ":", ";", "<", "=", ">", "?",
     "@", "A", "B", "C", "D", "E", "F", "G", "H", "I", "J", "K", "L", "M", "N", "O",
     "P", "Q", "R", "S", "T", "U", "V", "W", "X", "Y", "Z", "[", "\\", "]", "^", "_",
     "grave", "a", "b", "c", "d", "e", "f", "g", "h", "i", "j", "k", "l", "m", "n", "o",
     "p", "q", "r", "s", "t", "u", "v", "w", "x", "y", "z", "{", "|", "}", "~" >>

\* ord(c) for an ASCII character
CodePoint(c) == 31 + (CHOOSE i \in 1..Len(Ascii) : Ascii[i] = c)

IsDigit(c) == c \in {"0", "1", "2", "3", "4", "5", "6", "7", "8", "9"}

IsUpper(c) ==
  c \in { "A", "B", "C", "D", "E", "F", "G", "H", "I", "J", "K", "L", "M",
          "N", "O", "P", "Q", "R", "S", "T", "U", "V", "W", "X", "Y", "Z" }

\* str.lower() on one character
LowerChar(c) == IF IsUpper(c) THEN Ascii[CodePoint(c) - 31 + 32] ELSE c

\* str.lower()
Lower(s) == [i \in 1..Len(s) |-> LowerChar(s[i])]

\* str.endswith(suffix)
EndsWith(s, suffix) ==
  /\ Len(suffix) <= Len(s)
  /\ SubSeq(s, Len(s) - Len(suffix) + 1, Len(s)) = suffix

\* s < t on Python strings: lexicographic by code point, a proper prefix first
RECURSIVE StrLess(_, _)
StrLess(s, t) ==
  IF t = <<>> THEN FALSE
  ELSE IF s = <<>> THEN TRUE
  ELSE IF s[1] = t[1] THEN StrLess(Tail(s), Tail(t))
  ELSE CodePoint(s[1]) < CodePoint(t[1])

\* str(n) for n >= 0
RECURSIVE DecStr(_)
DecStr(n) ==
  IF n < 10 THEN << Ascii[n + 17] >>
  ELSE DecStr(n \div 10) \o << Ascii[(n % 10) + 17] >>

\* os.path.splitext on a bare file name: the extension starts at the last dot,
\* unless only dots precede it
splitext(filename) ==
  LET dots == { i \in 1..Len(filename) : filename[i] = "." }
  IN  IF dots = {} THEN << filename, <<>> >>
      ELSE LET dotIndex == CHOOSE i \in dots : \A j \in dots : j <= i
           IN  IF \E k \in 1..(dotIndex - 1) : filename[k] # "."
               THEN << SubSeq(filename, 1, dotIndex - 1),
                       SubSeq(filename, dotIndex, Len(filename)) >>
               ELSE << filename, <<>> >>


\* Non-ASCII letters that occur in the texts of the practice (names, categories)
UnicodeUpper == << "Ä", "Ö", "Ü" >>
UnicodeLower == << "ä", "ö", "ü" >>
UnicodeLetters == { "Ä", "Ö", "Ü", "ä", "ö", "ü", "ß" }

IsLowerAscii(c) ==
  c \in { "a", "b", "c", "d", "e", "f", "g", "h", "i", "j", "k", "l", "m",
          "n", "o", "p", "q", "r", "s", "t", "u", "v", "w", "x", "y", "z" }

IsSpace(c) == c \in { " ", "\t", "\n", "\r" }

\* a character of the class \w of re with re.UNICODE
IsWordChar(c) ==
  IsDigit(c) \/ IsUpper(c) \/ IsLowerAscii(c) \/ c = "_" \/ c \in UnicodeLetters

\* str.lower() on one character, the letters above included
ToLowerChar(c) ==
  IF \E i \in 1..Len(UnicodeUpper) : UnicodeUpper[i] = c
  THEN UnicodeLower[CHOOSE i \in 1..Len(UnicodeUpper) : UnicodeUpper[i] = c]
  ELSE LowerChar(c)

ToLower(s) == [i \in 1..Len(s) |-> ToLowerChar(s[i])]

\* sep.join(parts)
RECURSIVE Join(_, _)
Join(parts, sep) ==
  IF parts = <<>> THEN <<>>
  ELSE IF Len(parts) = 1 THEN parts[1]
  ELSE parts[1] \o sep \o Join(Tail(parts), sep)

\* str.split(): the maximal runs of non-whitespace characters
RECURSIVE SplitFrom(_, _, _)
SplitFrom(s, word, acc) ==
  IF s = <<>> THEN (IF word = <<>> THEN acc ELSE Append(acc, word))
  ELSE IF IsSpace(s[1])
       THEN SplitFrom(Tail(s), <<>>, IF word = <<>> THEN acc ELSE Append(acc, word))
       ELSE SplitFrom(Tail(s), Append(word, s[1]), acc)

split(s) == SplitFrom(s, <<>>, <<>>)

\* str.strip("_")
RECURSIVE StripLeft(_)
StripLeft(s) == IF s # <<>> /\ s[1] = "_" THEN StripLeft(Tail(s)) ELSE s

RECURSIVE StripRight(_)
StripRight(s) ==
  IF s # <<>> /\ s[Len(s)] = "_" THEN StripRight(SubSeq(s, 1, Len(s) - 1)) ELSE s

\* re.sub(r"_+", "_", s)
RECURSIVE CollapseUnderscores(_)
CollapseUnderscores(s) ==
  IF Len(s) < 2 THEN s
  ELSE IF s[1] = "_" /\ s[2] = "_" THEN CollapseUnderscores(Tail(s))
  ELSE << s[1] >> \o CollapseUnderscores(Tail(s))

\* mutant of ReplaceUnsafe: the class lets the space through
ReplaceUnsafe_keeps_space(s) ==
  [i \in 1..Len(s) |->
     IF IsWordChar(s[i]) \/ s[i] = "-" \/ s[i] = "." \/ s[i] = " " THEN s[i] ELSE "_"]

\* re.sub(r"[^\w\-.]", "_", s, flags=re.UNICODE)
ReplaceUnsafe(s) ==
  [i \in 1..Len(s) |-> IF IsWordChar(s[i]) \/ s[i] = "-" \/ s[i] = "." THEN s[i] ELSE "_"]

\* mutant of sanitize_filename: the characters are replaced last
sanitize_filename_replaces_last(name) ==
  ReplaceUnsafe(StripRight(StripLeft(CollapseUnderscores(name))))

\* sanitize_filename(name)
sanitize_filename(name) == StripRight(StripLeft(CollapseUnderscores(ReplaceUnsafe(name))))


(***************************************************************************)
(* The literals of the program.                                            *)
(***************************************************************************)
PdfExt == << ".", "p", "d", "f" >>
Underscore == << "_" >>
ANALYSE == << "A", "N", "A", "L", "Y", "S", "E" >>
KONVERTIERUNG == << "K", "O", "N", "V", "E", "R", "T", "I", "E", "R", "U", "N", "G" >>
Unbekannt == << "U", "n", "b", "e", "k", "a", "n", "n", "t" >>
Werbung == << "W", "e", "r", "b", "u", "n", "g" >>
Arztbrief == << "A", "r", "z", "t", "b", "r", "i", "e", "f" >>
Arzt == << "A", "r", "z", "t" >>
Labor == << "L", "a", "b", "o", "r" >>

\* datetime.now().strftime("%Y%m%d_%H%M%S") at the t-th second of the clock
TimestampStr(t) ==
  << "2", "0", "2", "4", "0", "1", "0", "1", "_", "1", "2", "0", "0" >> \o (IF t < 10 THEN << "0" >> ELSE <<>>) \o DecStr(t)

\* the readings of the wall clock; datetime.now() is local time and is not
\* monotonic (clock corrections, the repeated hour at the end of summer time),
\* so two documents can get the same reading
Times == { 1, 2 }

\* a file in the inbound root that is no PDF
OtherFile == << "n", ".", "t", "x", "t" >>

\* the file names under which faxes arrive in the inbound folder
InboundNames == { << "a", ".", "p", "d", "f" >>, << "b", ".", "P", "D", "F" >> }

\* classifications that analyze_image_with_ollama returns (normalized)
Analyses ==
  { [kategorie |-> Labor, absender |-> Unbekannt, patient |-> <<>>],
    [kategorie |-> Arztbrief, absender |-> << "D", "r", " ", "X" >>, patient |-> << "M" >>] }

NoAnalysis == [kategorie |-> <<>>, absender |-> <<>>, patient |-> <<>>]

(***************************************************************************)
(* State.                                                                  *)
(***************************************************************************)
VARIABLES
  fs,          \* the folders: eingang (the inbound root), archiv, umbenannt, fehler
  log,         \* the persisted processing log (processing_log.json)
  pc,          \* position of scan_and_process / process_single_pdf
  pdfs,        \* the list enumerated by the running scan
  idx,         \* position of the scan in pdfs
  results,     \* the result list of the running (or last) scan
  cur,         \* the locals of the running process_single_pdf
  nextDoc,     \* number of the next document to arrive
  runs,        \* invocations of process_single_pdf so far
  events,      \* history: the steps the scan has performed, in order
  fsAtBegin,   \* history: the folders when the running invocation began
  fsAtScan,    \* history: the folders when the running scan enumerated the inbound root
  call         \* a single call of one function: its arguments and what it returned

vars == << fs, log, pc, pdfs, idx, results, cur, nextDoc, runs, events, fsAtBegin, fsAtScan, call >>

\* the variables of the pipeline
pipeline == << fs, log, pc, pdfs, idx, results, cur, nextDoc, runs, events, fsAtBegin, fsAtScan >>

Dirs == { "eingang", "archiv", "umbenannt", "fehler" }

EmptyDir == [n \in {} |-> 0]

\* no function is called on its own
NoCall == [fn |-> "", args |-> <<>>, returned |-> FALSE, ret |-> <<>>]

NoCur ==
  [original_name |-> <<>>, timestamp |-> <<>>, doc |-> 0,
   archive_path |-> <<>>, analysis |-> NoAnalysis]

\* os.listdir(directory): the names of the files of a folder
listdir(fsys, directory) == DOMAIN fsys[directory]

\* os.path.exists(os.path.join(directory, filename)), where directory stands
\* for the names of the files in it
exists(directory, filename) == filename \in directory

\* the while loop of unique_filepath, from the given counter on
RECURSIVE UniqueFrom(_, _, _, _)
UniqueFrom(directory, base, ext, counter) ==
  LET new_name == base \o Underscore \o DecStr(counter) \o ext
  IN  IF ~exists(directory, new_name) THEN new_name
      ELSE UniqueFrom(directory, base, ext, counter + 1)

\* mutant of unique_filepath: the first numbered name is taken unseen
unique_filepath_first_number(directory, filename) ==
  IF ~exists(directory, filename) THEN filename
  ELSE splitext(filename)[1] \o Underscore \o DecStr(1) \o splitext(filename)[2]

\* mutant of unique_filepath: the name is taken as it is, free or not
unique_filepath_same_name(directory, filename) == filename

\* unique_filepath(directory, filename), where directory stands for the names
\* of the files in it; the result is the file name within the directory (the
\* basename of the returned path)
unique_filepath(directory, filename) ==
  IF ~exists(directory, filename) THEN filename
  ELSE UniqueFrom(directory, splitext(filename)[1], splitext(filename)[2], 1)

\* mutant of generate_new_filename: the advertisement category is matched with its letter case
generate_new_filename_exact_case(analysis, timestamp) ==
  LET kat == analysis.kategorie
      absender == analysis.absender
      patient == analysis.patient
      parts == split(absender)
      fachrichtung == IF Len(parts) >= 2 THEN parts[1] ELSE Arzt
      arzt_name == IF Len(parts) >= 2 THEN Join(Tail(parts), Underscore)
                   ELSE IF absender # Unbekannt THEN absender ELSE <<>>
      brief == << Arztbrief, fachrichtung >>
                 \o (IF arzt_name # <<>> THEN << arzt_name >> ELSE <<>>)
                 \o (IF patient # <<>> THEN << patient >> ELSE <<>>)
                 \o << timestamp >>
      sonst == << kat >>
                 \o (IF absender # <<>> /\ absender # Unbekannt THEN << absender >> ELSE <<>>)
                 \o (IF patient # <<>> THEN << patient >> ELSE <<>>)
                 \o << timestamp >>
      filename == IF kat = Werbung
                  THEN Werbung \o Underscore \o timestamp \o PdfExt
                  ELSE IF ToLower(kat) = ToLower(Arztbrief)
                  THEN Join(brief, Underscore) \o PdfExt
                  ELSE Join(sonst, Underscore) \o PdfExt
  IN  sanitize_filename(filename)

\* mutant of generate_new_filename: a letter names the sender even when it is unknown
generate_new_filename_names_unbekannt(analysis, timestamp) ==
  LET kat == analysis.kategorie
      absender == analysis.absender
      patient == analysis.patient
      parts == split(absender)
      fachrichtung == IF Len(parts) >= 2 THEN parts[1] ELSE Arzt
      arzt_name == IF Len(parts) >= 2 THEN Join(Tail(parts), Underscore)
                   ELSE absender
      brief == << Arztbrief, fachrichtung >>
                 \o (IF arzt_name # <<>> THEN << arzt_name >> ELSE <<>>)
                 \o (IF patient # <<>> THEN << patient >> ELSE <<>>)
                 \o << timestamp >>
      sonst == << kat >>
                 \o (IF absender # <<>> /\ absender # Unbekannt THEN << absender >> ELSE <<>>)
                 \o (IF patient # <<>> THEN << patient >> ELSE <<>>)
                 \o << timestamp >>
      filename == IF ToLower(kat) = ToLower(Werbung)
                  THEN Werbung \o Underscore \o timestamp \o PdfExt
                  ELSE IF ToLower(kat) = ToLower(Arztbrief)
                  THEN Join(brief, Underscore) \o PdfExt
                  ELSE Join(sonst, Underscore) \o PdfExt
  IN  sanitize_filename(filename)

\* mutant of generate_new_filename: the other categories name the sender even when it is unknown
generate_new_filename_keeps_unbekannt(analysis, timestamp) ==
  LET kat == analysis.kategorie
      absender == analysis.absender
      patient == analysis.patient
      parts == split(absender)
      fachrichtung == IF Len(parts) >= 2 THEN parts[1] ELSE Arzt
      arzt_name == IF Len(parts) >= 2 THEN Join(Tail(parts), Underscore)
                   ELSE IF absender # Unbekannt THEN absender ELSE <<>>
      brief == << Arztbrief, fachrichtung >>
                 \o (IF arzt_name # <<>> THEN << arzt_name >> ELSE <<>>)
                 \o (IF patient # <<>> THEN << patient >> ELSE <<>>)
                 \o << timestamp >>
      sonst == << kat >>
                 \o (IF absender # <<>> THEN << absender >> ELSE <<>>)
                 \o (IF patient # <<>> THEN << patient >> ELSE <<>>)
                 \o << timestamp >>
      filename == IF ToLower(kat) = ToLower(Werbung)
                  THEN Werbung \o Underscore \o timestamp \o PdfExt
                  ELSE IF ToLower(kat) = ToLower(Arztbrief)
                  THEN Join(brief, Underscore) \o PdfExt
                  ELSE Join(sonst, Underscore) \o PdfExt
  IN  sanitize_filename(filename)

\* generate_new_filename(analysis, timestamp)
generate_new_filename(analysis, timestamp) ==
  LET kat == analysis.kategorie
      absender == analysis.absender
      patient == analysis.patient
      parts == split(absender)
      fachrichtung == IF Len(parts) >= 2 THEN parts[1] ELSE Arzt
      arzt_name == IF Len(parts) >= 2 THEN Join(Tail(parts), Underscore)
                   ELSE IF absender # Unbekannt THEN absender ELSE <<>>
      brief == << Arztbrief, fachrichtung >>
                 \o (IF arzt_name # <<>> THEN << arzt_name >> ELSE <<>>)
                 \o (IF patient # <<>> THEN << patient >> ELSE <<>>)
                 \o << timestamp >>
      sonst == << kat >>
                 \o (IF absender # <<>> /\ absender # Unbekannt THEN << absender >> ELSE <<>>)
                 \o (IF patient # <<>> THEN << patient >> ELSE <<>>)
                 \o << timestamp >>
      filename == IF ToLower(kat) = ToLower(Werbung)
                  THEN Werbung \o Underscore \o timestamp \o PdfExt
                  ELSE IF ToLower(kat) = ToLower(Arztbrief)
                  THEN Join(brief, Underscore) \o PdfExt
                  ELSE Join(sonst, Underscore) \o PdfExt
  IN  sanitize_filename(filename)

(***************************************************************************)
(* The processing log.                                                     *)
(***************************************************************************)
LOG_MAX_ENTRIES == 50

\* the status strings of the log entries (without their pictograms)
TagBackup == "Backup-Fehler"
TagConversion == "Konvertierungsfehler"
TagAnalysis == "Analyse-Fehler -> /Fehler"
TagSuccess == "Erfolgreich"
TagMove == "Verschiebe-Fehler"

\* log_entries[-n:]
LastN(entries, n) ==
  IF Len(entries) <= n THEN entries
  ELSE SubSeq(entries, Len(entries) - n + 1, Len(entries))

\* load_processing_log(): the persisted list
load_processing_log == log

\* mutant of save_processing_log: the oldest entries are kept
save_processing_log_oldest(log_entries) ==
  IF Len(log_entries) <= LOG_MAX_ENTRIES THEN log_entries
  ELSE SubSeq(log_entries, 1, LOG_MAX_ENTRIES)

\* save_processing_log(log_entries): the list that is persisted
save_processing_log(log_entries) == LastN(log_entries, LOG_MAX_ENTRIES)

\* add_log_entry(...): the persisted list after the call.  The entry's own
\* time stamp and its free-text details are left out of the record.
add_log_entry(original_name, new_name, status, kategorie, absender, patient) ==
  save_processing_log(
    Append(load_processing_log,
           [original |-> original_name, neu |-> new_name, status |-> status,
            kategorie |-> kategorie, absender |-> absender, patient |-> patient]))

(***************************************************************************)
(* File operations.                                                        *)
(***************************************************************************)
\* the folders after shutil.copy2(src, dst) succeeded
copy2(fsys, srcDir, srcName, dstDir, dstName) ==
  [fsys EXCEPT ![dstDir] =
     [n \in DOMAIN fsys[dstDir] \cup {dstName} |->
        IF n = dstName THEN fsys[srcDir][srcName] ELSE fsys[dstDir][n]]]

\* mutant of move: the source stays where it was
move_keeps_source(fsys, srcDir, srcName, dstDir, dstName) ==
  [fsys EXCEPT ![dstDir] =
     [n \in DOMAIN fsys[dstDir] \cup {dstName} |->
        IF n = dstName THEN fsys[srcDir][srcName] ELSE fsys[dstDir][n]]]

\* the folders after shutil.move(src, dst) succeeded (a rename: the folders
\* are subfolders of the inbound root)
move(fsys, srcDir, srcName, dstDir, dstName) ==
  LET doc == fsys[srcDir][srcName]
      removed == [fsys EXCEPT ![srcDir] =
                    [n \in DOMAIN fsys[srcDir] \ {srcName} |-> fsys[srcDir][n]]]
  IN  [removed EXCEPT ![dstDir] =
         [n \in DOMAIN removed[dstDir] \cup {dstName} |->
            IF n = dstName THEN doc ELSE removed[dstDir][n]]]

\* sorted(names)
RECURSIVE sorted(_)
sorted(names) ==
  IF names = {} THEN <<>>
  ELSE LET first == CHOOSE x \in names : \A y \in names \ {x} : StrLess(x, y)
       IN  << first >> \o sorted(names \ {first})

Event(e) == Append(events, [i |-> idx, ev |-> e])

Events2(e1, e2) == Append(Event(e1), [i |-> idx, ev |-> e2])

Events3(e1, e2, e3) == Append(Events2(e1, e2), [i |-> idx, ev |-> e3])

Result(status, new_name) ==
  [original |-> cur.original_name, status |-> status, new_name |-> new_name]

(***************************************************************************)
(* The environment: a fax arrives.                                         *)
(***************************************************************************)
Arrive(name) ==
  /\ nextDoc <= MaxDocs
  /\ ~exists(listdir(fs, "eingang"), name)
  /\ fs' = [fs EXCEPT !["eingang"] =
              [n \in DOMAIN fs["eingang"] \cup {name} |->
                 IF n = name THEN nextDoc ELSE fs["eingang"][n]]]
  /\ nextDoc' = nextDoc + 1
  /\ UNCHANGED << log, pc, pdfs, idx, results, cur, runs, events, fsAtBegin, fsAtScan, call >>

(***************************************************************************)
(* scan_and_process                                                        *)
(***************************************************************************)
\* mutant of scan_pdfs: the list is sorted in descending order
scan_pdfs_descending ==
  LET up == sorted({ f \in listdir(fs, "eingang") : EndsWith(Lower(f), PdfExt) })
  IN  [k \in 1..Len(up) |-> up[Len(up) + 1 - k]]

\* the PDFs in the inbound root, sorted (the list comprehension of the scan)
scan_pdfs ==
  sorted({ f \in listdir(fs, "eingang") : EndsWith(Lower(f), PdfExt) })

\* scan_and_process up to the first iteration of its loop
ScanStart ==
  /\ pc = "idle"
  /\ LET found == scan_pdfs
     IN  /\ runs + Len(found) <= MaxRuns
         /\ pdfs' = found
         /\ pc' = IF found = <<>> THEN "idle" ELSE "loop"
  /\ results' = <<>>
  /\ events' = <<>>
  /\ idx' = 1
  /\ fsAtScan' = fs
  /\ UNCHANGED << fs, log, cur, nextDoc, runs, fsAtBegin, call >>

\* the loop calls process_single_pdf, which reads the clock
BeginPdf ==
  /\ pc = "loop"
  /\ idx <= Len(pdfs)
  /\ \E t \in Times :
       cur' = [original_name |-> pdfs[idx], timestamp |-> TimestampStr(t),
               doc |-> IF exists(listdir(fs, "eingang"), pdfs[idx]) THEN fs["eingang"][pdfs[idx]] ELSE 0,
               archive_path |-> <<>>, analysis |-> NoAnalysis]
  /\ fsAtBegin' = fs
  /\ runs' = runs + 1
  /\ pc' = "backup"
  /\ UNCHANGED << fs, log, pdfs, idx, results, nextDoc, events, fsAtScan, call >>

\* mutant of BackupOk: the original is moved into Archiv instead of copied
BackupOk_Moves ==
  /\ pc = "backup"
  /\ exists(listdir(fs, "eingang"), cur.original_name)
  /\ LET archive_name == cur.timestamp \o Underscore \o cur.original_name
         archive_path == unique_filepath(listdir(fs, "archiv"), archive_name)
     IN  /\ fs' = move(fs, "eingang", cur.original_name, "archiv", archive_path)
         /\ cur' = [cur EXCEPT !.archive_path = archive_path]
  /\ events' = Event("copy")
  /\ pc' = "render"
  /\ UNCHANGED << log, pdfs, idx, results, nextDoc, runs, fsAtBegin, fsAtScan, call >>

\* step 1, the copy into Archiv succeeds
BackupOk ==
  /\ pc = "backup"
  /\ exists(listdir(fs, "eingang"), cur.original_name)
  /\ LET archive_name == cur.timestamp \o Underscore \o cur.original_name
         archive_path == unique_filepath(listdir(fs, "archiv"), archive_name)
     IN  /\ fs' = copy2(fs, "eingang", cur.original_name, "archiv", archive_path)
         /\ cur' = [cur EXCEPT !.archive_path = archive_path]
  /\ events' = Event("copy")
  /\ pc' = "render"
  /\ UNCHANGED << log, pdfs, idx, results, nextDoc, runs, fsAtBegin, fsAtScan, call >>

\* mutant of BackupFail: the exception of the copy is not caught and leaves
\* scan_and_process
BackupFail_Raises ==
  /\ pc = "backup"
  /\ events' = Event("copy_failed")
  /\ pc' = "idle"
  /\ UNCHANGED << fs, log, pdfs, idx, results, cur, nextDoc, runs, fsAtBegin, fsAtScan, call >>

\* mutant of BackupFail: the original is routed to Fehler like the later errors
BackupFail_ToFehler ==
  /\ pc = "backup"
  /\ fs' = move(fs, "eingang", cur.original_name, "fehler",
                unique_filepath(listdir(fs, "fehler"),
                                cur.timestamp \o Underscore \o cur.original_name))
  /\ log' = add_log_entry(cur.original_name, <<>>, TagBackup, <<>>, <<>>, <<>>)
  /\ results' = Append(results, Result("backup_error", <<>>))
  /\ events' = Events2("copy_failed", "log")
  /\ pc' = "sleep"
  /\ UNCHANGED << pdfs, idx, cur, nextDoc, runs, fsAtBegin, fsAtScan, call >>

\* step 1, the copy raises
BackupFail ==
  /\ pc = "backup"
  /\ log' = add_log_entry(cur.original_name, <<>>, TagBackup, <<>>, <<>>, <<>>)
  /\ results' = Append(results, Result("backup_error", <<>>))
  /\ events' = Events2("copy_failed", "log")
  /\ pc' = "sleep"
  /\ UNCHANGED << fs, pdfs, idx, cur, nextDoc, runs, fsAtBegin, fsAtScan, call >>

\* step 2, pdf_to_image returns an image
RenderOk ==
  /\ pc = "render"
  /\ events' = Event("render")
  /\ pc' = "analyze"
  /\ UNCHANGED << fs, log, pdfs, idx, results, cur, nextDoc, runs, fsAtBegin, fsAtScan, call >>

\* mutant of RenderFail: the entry records the Fehler name, as the analysis
\* error does
RenderFail_LogsDest ==
  /\ pc = "render"
  /\ LET error_dest == unique_filepath(listdir(fs, "fehler"),
                         KONVERTIERUNG \o Underscore \o cur.timestamp
                           \o Underscore \o cur.original_name)
     IN  /\ \E moved \in BOOLEAN :
              /\ fs' = IF moved
                       THEN move(fs, "eingang", cur.original_name, "fehler", error_dest)
                       ELSE fs
              /\ events' = Events3("render", IF moved THEN "move" ELSE "move_failed", "log")
         /\ log' = add_log_entry(cur.original_name, error_dest, TagConversion,
                                 <<>>, <<>>, <<>>)
  /\ results' = Append(results, Result("conversion_error", <<>>))
  /\ pc' = "sleep"
  /\ UNCHANGED << pdfs, idx, cur, nextDoc, runs, fsAtBegin, fsAtScan, call >>

\* step 2, pdf_to_image returns None; the move into Fehler succeeds or raises,
\* and what it raises is swallowed
RenderFail ==
  /\ pc = "render"
  /\ LET error_dest == unique_filepath(listdir(fs, "fehler"),
                         KONVERTIERUNG \o Underscore \o cur.timestamp
                           \o Underscore \o cur.original_name)
     IN  \E moved \in BOOLEAN :
           /\ fs' = IF moved THEN move(fs, "eingang", cur.original_name, "fehler", error_dest)
                    ELSE fs
           /\ events' = Events3("render", IF moved THEN "move" ELSE "move_failed", "log")
  /\ log' = add_log_entry(cur.original_name, <<>>, TagConversion, <<>>, <<>>, <<>>)
  /\ results' = Append(results, Result("conversion_error", <<>>))
  /\ pc' = "sleep"
  /\ UNCHANGED << pdfs, idx, cur, nextDoc, runs, fsAtBegin, fsAtScan, call >>

\* step 3, analyze_image_with_ollama returns a classification
AnalyzeOk ==
  /\ pc = "analyze"
  /\ \E analysis \in Analyses : cur' = [cur EXCEPT !.analysis = analysis]
  /\ events' = Event("classify")
  /\ pc' = "file"
  /\ UNCHANGED << fs, log, pdfs, idx, results, nextDoc, runs, fsAtBegin, fsAtScan, call >>

\* step 3, analyze_image_with_ollama returns None
AnalyzeFail ==
  /\ pc = "analyze"
  /\ LET error_dest == unique_filepath(listdir(fs, "fehler"),
                         ANALYSE \o Underscore \o cur.timestamp
                           \o Underscore \o cur.original_name)
     IN  /\ \E moved \in BOOLEAN :
              /\ fs' = IF moved
                       THEN move(fs, "eingang", cur.original_name, "fehler", error_dest)
                       ELSE fs
              /\ events' = Events3("classify", IF moved THEN "move" ELSE "move_failed", "log")
         /\ log' = add_log_entry(cur.original_name, error_dest, TagAnalysis,
                                 <<>>, <<>>, <<>>)
  /\ results' = Append(results, Result("analysis_error", <<>>))
  /\ pc' = "sleep"
  /\ UNCHANGED << pdfs, idx, cur, nextDoc, runs, fsAtBegin, fsAtScan, call >>

\* mutant of MoveOk: the generated name is logged and returned instead of the
\* name the file got
MoveOk_LogsIntended ==
  /\ pc = "file"
  /\ LET new_filename == generate_new_filename(cur.analysis, cur.timestamp)
         dest_path == unique_filepath(listdir(fs, "umbenannt"), new_filename)
     IN  /\ fs' = move(fs, "eingang", cur.original_name, "umbenannt", dest_path)
         /\ log' = add_log_entry(cur.original_name, new_filename, TagSuccess,
                                 cur.analysis.kategorie, cur.analysis.absender,
                                 cur.analysis.patient)
         /\ results' = Append(results, Result("success", new_filename))
  /\ events' = Events2("move", "log")
  /\ pc' = "sleep"
  /\ UNCHANGED << pdfs, idx, cur, nextDoc, runs, fsAtBegin, fsAtScan, call >>

\* steps 4 and 5, the move into Umbenannt succeeds
MoveOk ==
  /\ pc = "file"
  /\ LET new_filename == generate_new_filename(cur.analysis, cur.timestamp)
         dest_path == unique_filepath(listdir(fs, "umbenannt"), new_filename)
         final_name == dest_path
     IN  /\ fs' = move(fs, "eingang", cur.original_name, "umbenannt", dest_path)
         /\ log' = add_log_entry(cur.original_name, final_name, TagSuccess,
                                 cur.analysis.kategorie, cur.analysis.absender,
                                 cur.analysis.patient)
         /\ results' = Append(results, Result("success", final_name))
  /\ events' = Events2("move", "log")
  /\ pc' = "sleep"
  /\ UNCHANGED << pdfs, idx, cur, nextDoc, runs, fsAtBegin, fsAtScan, call >>

\* mutant of MoveFail: the failure is returned but not logged
MoveFail_NoLog ==
  /\ pc = "file"
  /\ results' = Append(results, Result("move_error", <<>>))
  /\ events' = Event("move_failed")
  /\ pc' = "sleep"
  /\ UNCHANGED << fs, log, pdfs, idx, cur, nextDoc, runs, fsAtBegin, fsAtScan, call >>

\* mutant of MoveFail: the entry has an empty resulting name, as the backup
\* error has
MoveFail_LogsEmpty ==
  /\ pc = "file"
  /\ log' = add_log_entry(cur.original_name, <<>>, TagMove, <<>>, <<>>, <<>>)
  /\ results' = Append(results, Result("move_error", <<>>))
  /\ events' = Events2("move_failed", "log")
  /\ pc' = "sleep"
  /\ UNCHANGED << fs, pdfs, idx, cur, nextDoc, runs, fsAtBegin, fsAtScan, call >>

\* steps 4 and 5, the move into Umbenannt raises
MoveFail ==
  /\ pc = "file"
  /\ LET new_filename == generate_new_filename(cur.analysis, cur.timestamp)
     IN  log' = add_log_entry(cur.original_name, new_filename, TagMove,
                              <<>>, <<>>, <<>>)
  /\ results' = Append(results, Result("move_error", <<>>))
  /\ events' = Events2("move_failed", "log")
  /\ pc' = "sleep"
  /\ UNCHANGED << fs, pdfs, idx, cur, nextDoc, runs, fsAtBegin, fsAtScan, call >>

\* mutant of Sleep: the loop lists the inbound root again after each document
Sleep_Rescans ==
  /\ pc = "sleep"
  /\ idx' = idx + 1
  /\ pc' = "loop"
  /\ pdfs' = pdfs \o sorted({ f \in listdir(fs, "eingang") :
                                /\ EndsWith(Lower(f), PdfExt)
                                /\ \A k \in 1..Len(pdfs) : pdfs[k] # f })
  /\ UNCHANGED << fs, log, results, cur, nextDoc, runs, events, fsAtBegin, fsAtScan, call >>

\* results.append(result); time.sleep(1); next iteration
Sleep ==
  /\ pc = "sleep"
  /\ idx' = idx + 1
  /\ pc' = "loop"
  /\ UNCHANGED << fs, log, pdfs, results, cur, nextDoc, runs, events, fsAtBegin, fsAtScan, call >>

\* the loop is exhausted: return results
ScanReturn ==
  /\ pc = "loop"
  /\ idx > Len(pdfs)
  /\ pc' = "idle"
  /\ cur' = NoCur
  /\ fsAtBegin' = fs
  /\ fsAtScan' = fs
  /\ UNCHANGED << fs, log, pdfs, idx, results, nextDoc, runs, events, call >>

(***************************************************************************)
(* The retry button of the folder view (main).                             *)
(***************************************************************************)
\* re.match(r"^(ANALYSE|KONVERTIERUNG)_\d{8}_\d{6}_", f) with the given marker
MarkerMatches(f, marker) ==
  LET n == Len(marker)
  IN  /\ Len(f) >= n + 17
      /\ SubSeq(f, 1, n) = marker
      /\ f[n + 1] = "_"
      /\ \A i \in (n + 2)..(n + 9) : IsDigit(f[i])
      /\ f[n + 10] = "_"
      /\ \A i \in (n + 11)..(n + 16) : IsDigit(f[i])
      /\ f[n + 17] = "_"

\* mutant of clean_name: the marker is left on the name
clean_name_keeps_marker(f) == f

\* re.sub(r"^(ANALYSE|KONVERTIERUNG)_\d{8}_\d{6}_", "", f)
clean_name(f) ==
  IF MarkerMatches(f, ANALYSE) THEN SubSeq(f, Len(ANALYSE) + 18, Len(f))
  ELSE IF MarkerMatches(f, KONVERTIERUNG) THEN SubSeq(f, Len(KONVERTIERUNG) + 18, Len(f))
  ELSE f

\* the for loop of the handler, reduced to the files whose move succeeds, in
\* the order the loop reaches them; a move that raises changes nothing, and
\* what it raises is swallowed
RECURSIVE RetryLoop(_, _)
RetryLoop(fsys, moved) ==
  IF moved = <<>> THEN fsys
  ELSE LET f == Head(moved)
           dest == unique_filepath(listdir(fsys, "eingang"), clean_name(f))
       IN  RetryLoop(move(fsys, "fehler", f, "eingang", dest), Tail(moved))

\* the orders in which os.listdir can enumerate the names
RECURSIVE Orders(_)
Orders(names) ==
  IF names = {} THEN { <<>> }
  ELSE UNION { { << x >> \o rest : rest \in Orders(names \ {x}) } : x \in names }

\* the folders the handler can leave behind: any subset of the moves succeeds,
\* in any order of enumeration
RetryOutcomes(fehler_pdfs) ==
  { RetryLoop(fs, moved) :
      moved \in UNION { Orders(ok) : ok \in SUBSET fehler_pdfs } }

\* the handler of the button, shown when Fehler holds PDFs
Retry ==
  /\ pc = "idle"
  /\ LET fehler_pdfs == { f \in listdir(fs, "fehler") : EndsWith(Lower(f), PdfExt) }
     IN  /\ fehler_pdfs # {}
         /\ fs' \in RetryOutcomes(fehler_pdfs)
  /\ UNCHANGED << log, pc, pdfs, idx, results, cur, nextDoc, runs, events, fsAtBegin, fsAtScan, call >>

\* the pipeline at rest: nothing has arrived, nothing is logged
PipelineInit ==
  /\ fs = [d \in Dirs |-> IF d = "eingang" THEN [n \in {OtherFile} |-> 0] ELSE EmptyDir]
  /\ log = <<>>
  /\ pc = "idle"
  /\ pdfs = <<>>
  /\ idx = 1
  /\ results = <<>>
  /\ cur = NoCur
  /\ nextDoc = 1
  /\ runs = 0
  /\ events = <<>>
  /\ fsAtBegin = [d \in Dirs |-> IF d = "eingang" THEN [n \in {OtherFile} |-> 0] ELSE EmptyDir]
  /\ fsAtScan = [d \in Dirs |-> IF d = "eingang" THEN [n \in {OtherFile} |-> 0] ELSE EmptyDir]

Init ==
  /\ PipelineInit
  /\ call = NoCall

Next ==
  \/ \E name \in InboundNames : Arrive(name)
  \/ ScanStart
  \/ BeginPdf
  \/ BackupOk
  \/ BackupFail
  \/ RenderOk
  \/ RenderFail
  \/ AnalyzeOk
  \/ AnalyzeFail
  \/ MoveOk
  \/ MoveFail
  \/ Sleep
  \/ ScanReturn
  \/ Retry

Spec == Init /\ [][Next]_vars

(***************************************************************************)
(* normalize_analysis and the filter of the own identity.                  *)
(***************************************************************************)
\* s.strip(chars)
RECURSIVE StripChars(_, _)
StripChars(s, chars) ==
  IF s = <<>> THEN s
  ELSE IF s[1] \in chars THEN StripChars(Tail(s), chars)
  ELSE IF s[Len(s)] \in chars THEN StripChars(SubSeq(s, 1, Len(s) - 1), chars)
  ELSE s

\* s.strip()
strip(s) == StripChars(s, { " ", "\t", "\n", "\r" })

\* sub in s
Contains(s, sub) ==
  \E i \in 1..(Len(s) - Len(sub) + 1) : SubSeq(s, i, i + Len(sub) - 1) = sub

Befund == << "B", "e", "f", "u", "n", "d" >>

\* a value of the decoded JSON object: a string or null
JStr(s) == [type |-> "str", value |-> s]
JNull == [type |-> "null", value |-> <<>>]

\* str(value)
str(value) == IF value.type = "null" THEN << "N", "o", "n", "e" >> ELSE value.value

\* data.get(key, default)
get(data, key, default) == IF key \in DOMAIN data THEN data[key] ELSE default

\* the tuple empty_values of normalize_analysis
empty_values ==
  { <<>>,
    << "n", "o", "n", "e" >>,
    << "n", "u", "l", "l" >>,
    << "n", "/", "a" >>,
    << "-" >>,
    << "u", "n", "b", "e", "k", "a", "n", "n", "t" >>,
    << "n", "i", "c", "h", "t", " ", "e", "r", "k", "e", "n", "n", "b", "a", "r" >>,
    << "n", "i", "c", "h", "t", " ", "e", "r", "s", "i", "c", "h", "t", "l", "i", "c", "h" >>,
    << "n", "i", "c", "h", "t", " ", "a", "n", "g", "e", "g", "e", "b", "e", "n" >>,
    << "k", "e", "i", "n", "e", " ", "a", "n", "g", "a", "b", "e" >>,
    << "k", "e", "i", "n", "e" >>,
    << "k", ".", "a", "." >>,
    << "k", ".", " ", "a", "." >>,
    << "n", ".", "a", "." >>,
    << "k", "e", "i", "n", " ", "a", "n", "g", "a", "b", "e" >>,
    << "n", "i", "c", "h", "t", " ", "v", "o", "r", "h", "a", "n", "d", "e", "n" >>,
    << "n", "i", "c", "h", "t", " ", "b", "e", "k", "a", "n", "n", "t" >> }
\* mutant of ignore_parts: no part of the name is ignored
ignore_parts_none == {}

\* the set ignore_parts of _contains_own_name
ignore_parts ==
  { << "d", "r" >>,
    << "d", "r", "." >>,
    << "m", "e", "d" >>,
    << "m", "e", "d", "." >>,
    << "p", "r", "o", "f" >>,
    << "p", "r", "o", "f", "." >>,
    << "s", "t", "r" >>,
    << "s", "t", "r", "." >>,
    << "h", "u", "t", "t", "e", "n", "s", "t", "r" >>,
    << "h", "u", "t", "t", "e", "n", "s", "t", "r", "." >>,
    << "p", "r", "a", "x", "i", "s" >>,
    << "h", "e", "r", "r" >>,
    << "f", "r", "a", "u" >> }
\* mutant of contains_own_name: the complete name is not looked for
contains_own_name_parts_only(text, eigener_name) ==
  IF text = <<>> \/ eigener_name = <<>> THEN FALSE
  ELSE LET text_lower == ToLower(text)
           parts == split(eigener_name)
           name_parts == [i \in 1..Len(parts) |-> StripChars(parts[i], { ".", "," })]
       IN  \E i \in 1..Len(name_parts) :
             /\ Len(name_parts[i]) >= 3
             /\ ToLower(name_parts[i]) \notin ignore_parts
             /\ Contains(text_lower, ToLower(name_parts[i]))

\* _contains_own_name(text, eigener_name)
contains_own_name(text, eigener_name) ==
  IF text = <<>> \/ eigener_name = <<>> THEN FALSE
  ELSE LET text_lower == ToLower(text)
           parts == split(eigener_name)
           name_parts == [i \in 1..Len(parts) |-> StripChars(parts[i], { ".", "," })]
           significant == { i \in 1..Len(name_parts) :
                              /\ Len(name_parts[i]) >= 3
                              /\ ToLower(name_parts[i]) \notin ignore_parts }
       IN  \/ Contains(text_lower, ToLower(eigener_name))
           \/ \E i \in significant : Contains(text_lower, ToLower(name_parts[i]))

\* mutant of normalize_analysis: only the lower-case keys are read
normalize_analysis_lower_keys(data, eigener_name) ==
  LET kategorie == strip(str(get(data, "kategorie", JStr(Befund))))
      absender == strip(str(get(data, "absender", JStr(Unbekannt))))
      patient == strip(str(get(data, "patient", JStr(<<>>))))
      kategorie1 == IF kategorie = <<>> \/ strip(ToLower(kategorie)) \in empty_values
                    THEN Befund ELSE kategorie
      absender1 == IF absender = <<>> \/ strip(ToLower(absender)) \in empty_values
                   THEN Unbekannt ELSE absender
      patient1 == IF patient = <<>> \/ strip(ToLower(patient)) \in empty_values
                  THEN <<>> ELSE patient
      absender2 == IF eigener_name # <<>> /\ contains_own_name(absender1, eigener_name)
                   THEN Unbekannt ELSE absender1
      patient2 == IF eigener_name # <<>> /\ contains_own_name(patient1, eigener_name)
                  THEN <<>> ELSE patient1
  IN  [kategorie |-> kategorie1, absender |-> absender2, patient |-> patient2]

\* normalize_analysis(data, eigener_name)
normalize_analysis(data, eigener_name) ==
  LET kategorie == strip(str(get(data, "kategorie", get(data, "Kategorie", JStr(Befund)))))
      absender == strip(str(get(data, "absender", get(data, "Absender", JStr(Unbekannt)))))
      patient == strip(str(get(data, "patient", get(data, "Patient", JStr(<<>>)))))
      kategorie1 == IF kategorie = <<>> \/ strip(ToLower(kategorie)) \in empty_values
                    THEN Befund ELSE kategorie
      absender1 == IF absender = <<>> \/ strip(ToLower(absender)) \in empty_values
                   THEN Unbekannt ELSE absender
      patient1 == IF patient = <<>> \/ strip(ToLower(patient)) \in empty_values
                  THEN <<>> ELSE patient
      absender2 == IF eigener_name # <<>> /\ contains_own_name(absender1, eigener_name)
                   THEN Unbekannt ELSE absender1
      patient2 == IF eigener_name # <<>> /\ contains_own_name(patient1, eigener_name)
                  THEN <<>> ELSE patient1
  IN  [kategorie |-> kategorie1, absender |-> absender2, patient |-> patient2]

\* the configured eigener_name: the default of DEFAULT_CONFIG, two other
\* practices, and none
OwnNames ==
  { << "D", "r", ".", " ", "m", "e", "d", ".", " ", "F", "l", "o", "r", "i", "a", "n", " ",
       "R", "a", "s", "c", "h", "e", ",", " ", "H", "u", "t", "t", "e", "n", "s", "t", "r", ".", " ", "6" >>,
    << "D", "r", ".", " ", "L", "i" >>,
    << "K", "a", "n", "n" >>,
    <<>> }

\* what the model answers in the field absender
AbsenderValues ==
  { JStr(<< "D", "r", ".", " ", "R", "a", "s", "c", "h", "e" >>),
    JStr(<< "F", "L", "O", "R", "I", "A", "N", " ", "M" >>),
    JStr(<< "L", "a", "b", "o", "r", " ", "N", "o", "r", "d" >>),
    JStr(<< " ", "n", "/", "a", " " >>),
    JStr(<< "D", "r", ".", " ", "L", "i", " ", "P", "r", "a", "x", "i", "s" >>),
    JStr(<< "D", "r", ".", " ", "K", "a", "n", "n" >>),
    JStr(<< "D", "r", ".", " ", "m", "e", "d", ".", " ", "F", "l", "o", "r", "i", "a", "n", " ", "R", "a", "s", "c", "h", "e" >>),
    JStr(<< "D", "r", ".", " ", "M", "ü", "l", "l", "e", "r" >>),
    JStr(<< "D", "r", ".", " ", "m", "e", "d", ".", " ", "B", "e", "c", "k" >>),
    JNull }

\* what the model answers in the field patient
PatientValues ==
  { JStr(<< "M", "a", "x", " ", "K", "a", "n", "n" >>),
    JStr(<< "R", "a", "s", "c", "h", "e" >>),
    JStr(<< "S", "c", "h", "m", "i", "d", "t" >>),
    JStr(<<>>) }

\* what the model answers in the field kategorie
KategorieValues == { JStr(Labor) }

\* a field under one of the two spellings of its key, or absent
Field(lower, capitalized, values) ==
  { EmptyDir } \cup { k :> v : k \in { lower, capitalized }, v \in values }

\* a field under its key in capital letters
UpperCaseField(upper, values) == { upper :> v : v \in values }

\* the decoded JSON objects passed to normalize_analysis
RawDicts ==
  { k @@ a @@ p :
      k \in Field("kategorie", "Kategorie", KategorieValues)
               \cup UpperCaseField("KATEGORIE", KategorieValues),
      a \in Field("absender", "Absender", AbsenderValues)
               \cup UpperCaseField("ABSENDER", AbsenderValues),
      p \in Field("patient", "Patient", PatientValues)
               \cup UpperCaseField("PATIENT", PatientValues) }

NormalizeInit ==
  /\ PipelineInit
  /\ \E data \in RawDicts, eigener_name \in OwnNames :
       call = [fn |-> "normalize_analysis", args |-> << data, eigener_name >>,
               returned |-> FALSE, ret |-> NoAnalysis]

\* the call of normalize_analysis
Normalize ==
  /\ call.fn = "normalize_analysis"
  /\ ~call.returned
  /\ call' = [call EXCEPT !.returned = TRUE,
                          !.ret = normalize_analysis(call.args[1], call.args[2])]
  /\ UNCHANGED pipeline

NormalizeNext == Normalize

SpecNormalize == NormalizeInit /\ [][NormalizeNext]_vars

(***************************************************************************)
(* unique_filepath on its own: one call on a directory with given content. *)
(***************************************************************************)
\* number of numbered variants of a name that the directory may hold
MaxExisting == 3

\* the file names asked for: with an extension, without, and a dot file
WantedNames == { << "f", ".", "p", "d", "f" >>, << "g" >>, << ".", "x" >> }

\* the names base_k ext of a file name
Numbered(filename, k) ==
  splitext(filename)[1] \o Underscore \o DecStr(k) \o splitext(filename)[2]

\* the contents a directory can have when filename is asked for
Directories(filename) ==
  { numbered \cup other :
      numbered \in SUBSET ({ filename } \cup { Numbered(filename, k) : k \in 1..MaxExisting }),
      other \in { {}, { OtherFile } } }

UniqueInit ==
  /\ PipelineInit
  /\ \E filename \in WantedNames :
       \E directory \in Directories(filename) :
         call = [fn |-> "unique_filepath", args |-> << directory, filename >>,
                 returned |-> FALSE, ret |-> <<>>]

\* the call of unique_filepath
Unique ==
  /\ call.fn = "unique_filepath"
  /\ ~call.returned
  /\ call' = [call EXCEPT !.returned = TRUE,
                          !.ret = unique_filepath(call.args[1], call.args[2])]
  /\ UNCHANGED pipeline

UniqueNext == Unique

SpecUnique == UniqueInit /\ [][UniqueNext]_vars

(***************************************************************************)
(* sanitize_filename on its own: one call on a given name.                 *)
(***************************************************************************)
\* length of the names given to sanitize_filename
MaxNameLen == 3

\* characters of each kind the expression treats differently: a letter, a
\* digit, the underscore, the hyphen, the dot, a letter outside ASCII, and
\* two characters it replaces
NameChars == { "a", "7", "_", "-", ".", "ü", " ", "/" }

Names == UNION { [1..n -> NameChars] : n \in 0..MaxNameLen }

SanitizeInit ==
  /\ PipelineInit
  /\ \E name \in Names :
       call = [fn |-> "sanitize_filename", args |-> << name >>,
               returned |-> FALSE, ret |-> <<>>]

\* the call of sanitize_filename
Sanitize ==
  /\ call.fn = "sanitize_filename"
  /\ ~call.returned
  /\ call' = [call EXCEPT !.returned = TRUE, !.ret = sanitize_filename(call.args[1])]
  /\ UNCHANGED pipeline

SanitizeNext == Sanitize

SpecSanitize == SanitizeInit /\ [][SanitizeNext]_vars

(***************************************************************************)
(* generate_new_filename on its own: one call on a given classification.   *)
(***************************************************************************)
\* the categories the model answers, in several letter cases
Kategorien ==
  { Werbung,
    << "W", "E", "R", "B", "U", "N", "G" >>,
    Arztbrief,
    << "a", "r", "z", "t", "b", "r", "i", "e", "f" >>,
    Labor,
    Befund,
    << "R", "e", "z", "e", "p", "t", " ", "N", "r" >> }

\* the senders: unknown, empty, one word, two, three, and one with characters
\* the sanitizer replaces
Absender ==
  { Unbekannt,
    <<>>,
    << "M", "u", "e", "l", "l", "e", "r" >>,
    << "K", "a", "r", "d", "i", "o", "l", "o", "g", "e", " ", "M", "u", "e", "l", "l", "e", "r" >>,
    << "D", "r", " ", "X", " ", "Y" >>,
    << "D", "r", ".", " ", "(", "U", "n", "i", ")" >> }

Patienten == { <<>>, << "S", "c", "h", "m", "i", "d", "t" >>, << "A", " ", "B" >> }

FilenameInit ==
  /\ PipelineInit
  /\ \E kat \in Kategorien, absender \in Absender, patient \in Patienten, t \in Times :
       call = [fn |-> "generate_new_filename",
               args |-> << [kategorie |-> kat, absender |-> absender, patient |-> patient],
                           TimestampStr(t) >>,
               returned |-> FALSE, ret |-> <<>>]

\* the call of generate_new_filename
Generate ==
  /\ call.fn = "generate_new_filename"
  /\ ~call.returned
  /\ call' = [call EXCEPT !.returned = TRUE,
                          !.ret = generate_new_filename(call.args[1], call.args[2])]
  /\ UNCHANGED pipeline

FilenameNext == Generate

SpecFilename == FilenameInit /\ [][FilenameNext]_vars

(***************************************************************************)
(* The vision client: analyze_image_with_ollama, by what the endpoint does *)
(* with the request, and process_single_pdf around the call.               *)
(***************************************************************************)
\* what requests.post, raise_for_status, resp.json and the reading of the
\* reply can do: the exception raised inside the try block, if any
EndpointFailures ==
  { "connect_timeout",     \* requests.exceptions.Timeout
    "read_timeout",        \* requests.exceptions.Timeout
    "connection_refused",  \* requests.exceptions.ConnectionError
    "http_error",          \* raise_for_status: requests.exceptions.HTTPError
    "body_not_json",       \* resp.json(): ValueError
    "body_not_object",     \* response_data.get: AttributeError
    "content_not_text",    \* parse_ollama_response: TypeError
    "too_many_redirects" } \* requests.exceptions.RequestException

\* the replies of the endpoint: a failure, or a body with a message content,
\* given by what parse_ollama_response makes of it
EndpointResponses ==
  { [kind |-> k, parsed |-> NoAnalysis] : k \in EndpointFailures }
    \cup { [kind |-> "ok", parsed |-> a] : a \in Analyses \cup { NoAnalysis } }

\* the class of the exception raised inside the try block
RaisedInTry(response) ==
  CASE response.kind \in { "connect_timeout", "read_timeout" } -> "Timeout"
    [] response.kind = "connection_refused" -> "ConnectionError"
    [] response.kind = "http_error" -> "HTTPError"
    [] response.kind = "body_not_json" -> "ValueError"
    [] response.kind = "body_not_object" -> "AttributeError"
    [] response.kind = "content_not_text" -> "TypeError"
    [] response.kind = "too_many_redirects" -> "RequestException"
    [] OTHER -> ""

\* the classes that except Exception catches
ExceptionClasses ==
  { "Timeout", "ConnectionError", "HTTPError", "ValueError", "AttributeError",
    "TypeError", "RequestException" }

\* how a call ends: it returns a dict, it returns None, or it raises
ReturnsDict(value) == [raised |-> FALSE, none |-> FALSE, value |-> value]
ReturnsNone == [raised |-> FALSE, none |-> TRUE, value |-> NoAnalysis]
Raises == [raised |-> TRUE, none |-> FALSE, value |-> NoAnalysis]

\* mutant of analyze_image_with_ollama: only the two named handlers
analyze_image_with_ollama_two_handlers(response) ==
  LET exception == RaisedInTry(response)
  IN  IF exception = ""
      THEN IF response.parsed = NoAnalysis THEN ReturnsNone ELSE ReturnsDict(response.parsed)
      ELSE IF exception = "Timeout" THEN ReturnsNone
      ELSE IF exception = "ConnectionError" THEN ReturnsNone
      ELSE Raises

\* analyze_image_with_ollama(...), from the request on
analyze_image_with_ollama(response) ==
  LET exception == RaisedInTry(response)
  IN  IF exception = ""
      THEN IF response.parsed = NoAnalysis THEN ReturnsNone ELSE ReturnsDict(response.parsed)
      ELSE IF exception = "Timeout" THEN ReturnsNone
      ELSE IF exception = "ConnectionError" THEN ReturnsNone
      ELSE IF exception \in ExceptionClasses THEN ReturnsNone
      ELSE Raises

\* step 3, the call of analyze_image_with_ollama; what it raises is not
\* caught by process_single_pdf nor by scan_and_process
Classify ==
  /\ pc = "analyze"
  /\ \E response \in EndpointResponses :
       call' = [fn |-> "analyze_image_with_ollama", args |-> << response >>,
                returned |-> TRUE, ret |-> analyze_image_with_ollama(response)]
  /\ events' = Event("classify")
  /\ pc' = IF call'.ret.raised THEN "crashed" ELSE "analyzed"
  /\ UNCHANGED << fs, log, pdfs, idx, results, cur, nextDoc, runs, fsAtBegin, fsAtScan >>

\* step 3, analysis is None
ClassifiedNone ==
  /\ pc = "analyzed"
  /\ call.ret.none
  /\ LET error_dest == unique_filepath(listdir(fs, "fehler"),
                         ANALYSE \o Underscore \o cur.timestamp
                           \o Underscore \o cur.original_name)
     IN  /\ \E moved \in BOOLEAN :
              /\ fs' = IF moved
                       THEN move(fs, "eingang", cur.original_name, "fehler", error_dest)
                       ELSE fs
              /\ events' = Events2(IF moved THEN "move" ELSE "move_failed", "log")
         /\ log' = add_log_entry(cur.original_name, error_dest, TagAnalysis,
                                 <<>>, <<>>, <<>>)
  /\ results' = Append(results, Result("analysis_error", <<>>))
  /\ pc' = "sleep"
  /\ UNCHANGED << pdfs, idx, cur, nextDoc, runs, fsAtBegin, fsAtScan, call >>

\* step 3, analysis is a dict
ClassifiedDict ==
  /\ pc = "analyzed"
  /\ ~call.ret.none
  /\ cur' = [cur EXCEPT !.analysis = call.ret.value]
  /\ pc' = "file"
  /\ UNCHANGED << fs, log, pdfs, idx, results, nextDoc, runs, events, fsAtBegin, fsAtScan, call >>

\* one fax lies in the inbound folder
EndpointInit ==
  /\ fs = [d \in Dirs |->
             IF d = "eingang"
             THEN (OtherFile :> 0) @@ (<< "a", ".", "p", "d", "f" >> :> 1)
             ELSE EmptyDir]
  /\ log = <<>>
  /\ pc = "idle"
  /\ pdfs = <<>>
  /\ idx = 1
  /\ results = <<>>
  /\ cur = NoCur
  /\ nextDoc = 2
  /\ runs = 0
  /\ events = <<>>
  /\ fsAtBegin = fs
  /\ fsAtScan = fs
  /\ call = NoCall

EndpointNext ==
  \/ ScanStart
  \/ BeginPdf
  \/ BackupOk
  \/ BackupFail
  \/ RenderOk
  \/ RenderFail
  \/ Classify
  \/ ClassifiedNone
  \/ ClassifiedDict
  \/ MoveOk
  \/ MoveFail
  \/ Sleep
  \/ ScanReturn

SpecEndpoint == EndpointInit /\ [][EndpointNext]_vars

(***************************************************************************)
(* The processing log on its own: serialized calls of add_log_entry,       *)
(* starting from an empty log.  call.args collects the original names that *)
(* were passed, one per call.                                              *)
(***************************************************************************)
\* number of add_log_entry calls
MaxAppends == 100

LogInit ==
  /\ PipelineInit
  /\ call = [fn |-> "add_log_entry", args |-> <<>>, returned |-> FALSE, ret |-> <<>>]

\* one call of add_log_entry, for the n-th document
LogAppend ==
  /\ call.fn = "add_log_entry"
  /\ Len(call.args) < MaxAppends
  /\ LET original_name == DecStr(Len(call.args) + 1) \o PdfExt
     IN  /\ log' = add_log_entry(original_name, <<>>, TagBackup, <<>>, <<>>, <<>>)
         /\ call' = [call EXCEPT !.args = Append(@, original_name), !.returned = TRUE]
  /\ UNCHANGED << fs, pc, pdfs, idx, results, cur, nextDoc, runs, events, fsAtBegin, fsAtScan >>

LogNext == LogAppend

SpecLog == LogInit /\ [][LogNext]_vars

(***************************************************************************)
(* Two writers of the processing log: each runs add_log_entry, whose steps *)
(* are the reading of the file (load_processing_log), the opening of the   *)
(* file for writing, which empties it, and json.dump.  call.ret holds the  *)
(* position and the local list of each writer, events the order of steps.  *)
(***************************************************************************)
Writers == { 1, 2 }

\* the number of entries in the log before the two calls
StartLengths == { 0, 1, 49, 50 }

LogEntry(original_name) ==
  [original |-> original_name, neu |-> <<>>, status |-> TagBackup,
   kategorie |-> <<>>, absender |-> <<>>, patient |-> <<>>]

\* the entry each writer appends
WriterEntry(w) == LogEntry(<< "w" >> \o DecStr(w) \o PdfExt)

RaceInit ==
  /\ fs = [d \in Dirs |-> IF d = "eingang" THEN [n \in {OtherFile} |-> 0] ELSE EmptyDir]
  /\ \E n \in StartLengths : log = [k \in 1..n |-> LogEntry(DecStr(k) \o PdfExt)]
  /\ pc = "idle"
  /\ pdfs = <<>>
  /\ idx = 1
  /\ results = <<>>
  /\ cur = NoCur
  /\ nextDoc = 1
  /\ runs = 0
  /\ events = <<>>
  /\ fsAtBegin = fs
  /\ fsAtScan = fs
  /\ call = [fn |-> "add_log_entry", args |-> << log >>, returned |-> FALSE,
             ret |-> [w \in Writers |-> [at |-> "load", entries |-> <<>>]]]

\* entries = load_processing_log(); an emptied file does not decode, and
\* the function then returns []
LogLoad(w) ==
  /\ call.fn = "add_log_entry"
  /\ call.ret[w].at = "load"
  /\ call' = [call EXCEPT !.ret[w] = [at |-> "open", entries |-> load_processing_log]]
  /\ events' = Append(events, [i |-> w, ev |-> "load"])
  /\ UNCHANGED << fs, log, pc, pdfs, idx, results, cur, nextDoc, runs, fsAtBegin, fsAtScan >>

\* entries.append(...); open(LOG_FILE, "w") in save_processing_log
LogOpen(w) ==
  /\ call.fn = "add_log_entry"
  /\ call.ret[w].at = "open"
  /\ log' = <<>>
  /\ call' = [call EXCEPT !.ret[w] = [at |-> "dump",
                                      entries |-> Append(call.ret[w].entries, WriterEntry(w))]]
  /\ events' = Append(events, [i |-> w, ev |-> "open"])
  /\ UNCHANGED << fs, pc, pdfs, idx, results, cur, nextDoc, runs, fsAtBegin, fsAtScan >>

\* mutant of LogDump: only the new entry is written
LogDump_OnlyNew(w) ==
  /\ call.fn = "add_log_entry"
  /\ call.ret[w].at = "dump"
  /\ log' = save_processing_log(<< WriterEntry(w) >>)
  /\ call' = [call EXCEPT !.ret[w].at = "done",
                          !.returned = \A v \in Writers \ {w} : call.ret[v].at = "done"]
  /\ events' = Append(events, [i |-> w, ev |-> "dump"])
  /\ UNCHANGED << fs, pc, pdfs, idx, results, cur, nextDoc, runs, fsAtBegin, fsAtScan >>

\* json.dump(log_entries[-LOG_MAX_ENTRIES:], f) in save_processing_log
LogDump(w) ==
  /\ call.fn = "add_log_entry"
  /\ call.ret[w].at = "dump"
  /\ log' = save_processing_log(call.ret[w].entries)
  /\ call' = [call EXCEPT !.ret[w].at = "done",
                          !.returned = \A v \in Writers \ {w} : call.ret[v].at = "done"]
  /\ events' = Append(events, [i |-> w, ev |-> "dump"])
  /\ UNCHANGED << fs, pc, pdfs, idx, results, cur, nextDoc, runs, fsAtBegin, fsAtScan >>

RaceNext ==
  \/ \E w \in Writers : LogLoad(w)
  \/ \E w \in Writers : LogOpen(w)
  \/ \E w \in Writers : LogDump(w)

SpecRace == RaceInit /\ [][RaceNext]_vars

(***************************************************************************)
(* Regular expressions of module re, as far as the patterns of the parser  *)
(* need them.  A pattern is a tuple whose first element names the          *)
(* construct:                                                              *)
(*   <<"lit", s>>    the characters of s                                   *)
(*   <<"liti", s>>   the characters of s under re.IGNORECASE               *)
(*   <<"set", S>>    one character of S:        [...], \s                  *)
(*   <<"not", S>>    one character not in S:    [^...], and . without      *)
(*                   re.DOTALL as <<"not", {"\n"}>>                        *)
(*   <<"cat", ps>>   the patterns of ps one after the other                *)
(*   <<"alt", ps>>   p1|p2|...                                             *)
(*   <<"opt", p>>    p?                                                    *)
(*   <<"star", c>>   c*       <<"plus", c>>   c+       <<"lazy", c>>  c+?  *)
(*                   for a character class c, the only thing the patterns  *)
(*                   repeat                                                *)
(*   <<"grp", p>>    (p), the group 1          <<"look", p>>   (?=p)       *)
(*   <<"bol">>       ^        <<"eol">>        $     (no re.MULTILINE)     *)
(* A position of the matcher is <<pos, from, to>>: the index of the next   *)
(* character and the span of group 1 (0, 0 while the group has not         *)
(* matched).  In the texts the grave accent is the element "grave" and the *)
(* bullet the element "bullet".                                            *)
(***************************************************************************)
\* the element of a set of one element; The({ f(x) : x \in { e } }) is f(e)
\* with e evaluated once
The(S) == CHOOSE x \in S : TRUE

\* the concatenation of the sequences of seqs
RECURSIVE Flat(_)
Flat(seqs) == IF seqs = <<>> THEN <<>> ELSE Head(seqs) \o Flat(Tail(seqs))

\* the backtracking matcher: the patterns of todo are matched one after the
\* other from position at of text on; << the final position >> of the first
\* way to match that the matcher finds, <<>> when there is none
RECURSIVE Match(_, _, _)
Match(todo, text, at) ==
  LET pos == at[1]
      n == Len(text)
      p == Head(todo)
      rest == Tail(todo)
      on(k) == Match(rest, text, << pos + k, at[2], at[3] >>)
      InClass(c, class) == IF class[1] = "set" THEN c \in class[2] ELSE c \notin class[2]
      \* the end of the longest run of characters of the class from pos on
      run(class) == CHOOSE e \in pos..(n + 1) :
                      /\ \A i \in pos..(e - 1) : InClass(text[i], class)
                      /\ e <= n => ~InClass(text[e], class)
      \* the rest matched from each of the ends: pairs << end, result >>
      tries(ends) == { << e, Match(rest, text, << e, at[2], at[3] >>) >> : e \in ends }
      matched(ts) == { t \in ts : Len(t[2]) > 0 }
      \* the rest matched from the longest, or the shortest, of the ends from
      \* which it matches
      longest(ends) ==
        The({ IF good = {} THEN <<>>
              ELSE (CHOOSE t \in good : \A u \in good : u[1] <= t[1])[2] :
              good \in { matched(tries(ends)) } })
      shortest(ends) ==
        The({ IF good = {} THEN <<>>
              ELSE (CHOOSE t \in good : \A u \in good : t[1] <= u[1])[2] :
              good \in { matched(tries(ends)) } })
      \* the rest matched after the first of the alternatives after which it
      \* matches
      choice(ps) ==
        The({ IF good = {} THEN <<>>
              ELSE (CHOOSE t \in good : \A u \in good : t[1] <= u[1])[2] :
              good \in { matched({ << k, Match(<< ps[k] >> \o rest, text, at) >> :
                                   k \in 1..Len(ps) }) } })
  IN  IF Len(todo) = 0 THEN << at >>
      ELSE CASE p[1] = "lit" ->
                  IF pos + Len(p[2]) - 1 <= n /\ SubSeq(text, pos, pos + Len(p[2]) - 1) = p[2]
                  THEN on(Len(p[2])) ELSE <<>>
             [] p[1] = "liti" ->
                  IF /\ pos + Len(p[2]) - 1 <= n
                     /\ ToLower(SubSeq(text, pos, pos + Len(p[2]) - 1)) = ToLower(p[2])
                  THEN on(Len(p[2])) ELSE <<>>
             [] p[1] \in { "set", "not" } ->
                  IF pos <= n THEN (IF InClass(text[pos], p) THEN on(1) ELSE <<>>) ELSE <<>>
             [] p[1] = "cat" -> Match(p[2] \o rest, text, at)
             [] p[1] = "alt" -> choice(p[2])
             [] p[1] = "opt" -> choice(<< p[2], << "cat", <<>> >> >>)
             [] p[1] = "star" -> longest(pos..run(p[2]))
             [] p[1] = "plus" -> longest((pos + 1)..run(p[2]))
             [] p[1] = "lazy" -> shortest((pos + 1)..run(p[2]))
             [] p[1] = "grp" ->
                  Match(<< p[2], << "end of grp" >> >> \o rest, text, << pos, pos, 0 >>)
             [] p[1] = "end of grp" -> Match(rest, text, << pos, at[2], pos >>)
             [] p[1] = "look" ->
                  IF Len(Match(<< p[2] >>, text, at)) > 0 THEN on(0) ELSE <<>>
             [] p[1] = "bol" -> IF pos = 1 THEN on(0) ELSE <<>>
             [] p[1] = "eol" ->
                  IF pos = n + 1 THEN on(0)
                  ELSE IF pos = n THEN (IF text[n] = "\n" THEN on(0) ELSE <<>>)
                  ELSE <<>>

\* re.finditer(p, text) from position start on: the matches from left to
\* right, none overlapping; each with its span, the text of group 1 and
\* whether the pattern has a group
RECURSIVE finditer(_, _, _)
finditer(p, text, start) ==
  LET \* the leftmost start with a match, and the match: t = << s, << m >> >>
      from(t) ==
        LET s == t[1]
            m == t[2][1]
        IN  << [from |-> s, to |-> m[1], grouped |-> m[2] # 0,
                group |-> IF m[2] = 0 THEN <<>> ELSE SubSeq(text, m[2], m[3] - 1)] >>
              \o finditer(p, text, IF m[1] > s THEN m[1] ELSE m[1] + 1)
  IN  The({ IF good = {} THEN <<>>
            ELSE The({ from(t) : t \in { CHOOSE t \in good : \A u \in good : t[1] <= u[1] } }) :
            good \in { { t \in { << s, Match(<< p >>, text, << s, 0, 0 >>) >> :
                                 s \in start..(Len(text) + 1) } : Len(t[2]) > 0 } } })

\* re.findall(p, text): group 1 of each match, the whole match when the
\* pattern has no group
findall(p, text) ==
  The({ [k \in 1..Len(ms) |-> IF ms[k].grouped THEN ms[k].group
                              ELSE SubSeq(text, ms[k].from, ms[k].to - 1)] :
        ms \in { finditer(p, text, 1) } })

\* re.sub(p, repl, text), where repl is the literal prefix followed by \1
\* when the pattern has a group
sub(p, prefix, text) ==
  LET replaced(ms) ==
        LET kept(k) == SubSeq(text, IF k = 0 THEN 1 ELSE ms[k].to,
                                    IF k = Len(ms) THEN Len(text) ELSE ms[k + 1].from - 1)
        IN  kept(0) \o Flat([k \in 1..Len(ms) |-> prefix \o ms[k].group \o kept(k)])
  IN  The({ replaced(ms) : ms \in { finditer(p, text, 1) } })

(***************************************************************************)
(* json.loads, for the JSON the responses are written in: objects, strings *)
(* with their escapes, integers, true, false and null.  A decoded value is *)
(* a record of its type and value; the value of a number or a boolean is   *)
(* the text str() makes of it, the value of an object the function from    *)
(* its keys to its decoded members.                                         *)
(***************************************************************************)
\* the position of the first character from pos on that is not whitespace
RECURSIVE SkipWs(_, _)
SkipWs(text, pos) ==
  IF pos <= Len(text) /\ text[pos] \in { " ", "\t", "\n", "\r" }
  THEN SkipWs(text, pos + 1) ELSE pos

\* the string whose opening quote precedes pos: << decoded, text so far, next >>
RECURSIVE JsonString(_, _, _)
JsonString(text, pos, acc) ==
  LET Hex == << "0", "1", "2", "3", "4", "5", "6", "7", "8", "9",
                "a", "b", "c", "d", "e", "f" >>
      IsHex(c) == \E i \in 1..16 : Hex[i] = ToLowerChar(c)
      HexValue(c) == (CHOOSE i \in 1..16 : Hex[i] = ToLowerChar(c)) - 1
      Code(i) == 4096 * HexValue(text[i]) + 256 * HexValue(text[i + 1])
                   + 16 * HexValue(text[i + 2]) + HexValue(text[i + 3])
      Latin1 == << << 196, "Ä" >>, << 214, "Ö" >>, << 220, "Ü" >>, << 223, "ß" >>,
                   << 228, "ä" >>, << 246, "ö" >>, << 252, "ü" >> >>
      chr(code) == IF code >= 32 /\ code <= 126 THEN Ascii[code - 31]
                   ELSE IF \E i \in 1..Len(Latin1) : Latin1[i][1] = code
                   THEN Latin1[CHOOSE i \in 1..Len(Latin1) : Latin1[i][1] = code][2]
                   ELSE "?"
      failed == << FALSE, <<>>, pos >>
  IN  IF pos > Len(text) THEN failed
      ELSE IF text[pos] = "\"" THEN << TRUE, acc, pos + 1 >>
      ELSE IF text[pos] \in { "\n", "\t", "\r" } THEN failed
      ELSE IF text[pos] # "\\" THEN JsonString(text, pos + 1, Append(acc, text[pos]))
      ELSE IF pos + 1 > Len(text) THEN failed
      ELSE IF text[pos + 1] \in { "\"", "\\", "/" }
           THEN JsonString(text, pos + 2, Append(acc, text[pos + 1]))
      ELSE IF text[pos + 1] = "n" THEN JsonString(text, pos + 2, Append(acc, "\n"))
      ELSE IF text[pos + 1] = "t" THEN JsonString(text, pos + 2, Append(acc, "\t"))
      ELSE IF text[pos + 1] = "r" THEN JsonString(text, pos + 2, Append(acc, "\r"))
      ELSE IF text[pos + 1] = "u"
           THEN IF pos + 5 <= Len(text) /\ \A i \in (pos + 2)..(pos + 5) : IsHex(text[i])
                THEN JsonString(text, pos + 6, Append(acc, chr(Code(pos + 2))))
                ELSE failed
      ELSE failed

\* the keys normalize_analysis reads, and their spellings in capitals, as the
\* names under which the decoded object holds them; every other key is held
\* under one name that is never read
DictKey(chars) ==
  LET known == << << << "k", "a", "t", "e", "g", "o", "r", "i", "e" >>, "kategorie" >>,
                  << << "K", "a", "t", "e", "g", "o", "r", "i", "e" >>, "Kategorie" >>,
                  << << "K", "A", "T", "E", "G", "O", "R", "I", "E" >>, "KATEGORIE" >>,
                  << << "a", "b", "s", "e", "n", "d", "e", "r" >>, "absender" >>,
                  << << "A", "b", "s", "e", "n", "d", "e", "r" >>, "Absender" >>,
                  << << "A", "B", "S", "E", "N", "D", "E", "R" >>, "ABSENDER" >>,
                  << << "p", "a", "t", "i", "e", "n", "t" >>, "patient" >>,
                  << << "P", "a", "t", "i", "e", "n", "t" >>, "Patient" >>,
                  << << "P", "A", "T", "I", "E", "N", "T" >>, "PATIENT" >> >>
  IN  IF \E i \in 1..Len(known) : known[i][1] = chars
      THEN known[CHOOSE i \in 1..Len(known) : known[i][1] = chars][2]
      ELSE "other"

\* the value that starts at pos: << decoded, value, next >>
RECURSIVE JsonValue(_, _)
RECURSIVE JsonMembers(_, _, _)
JsonValue(text, pos) ==
  LET failed == << FALSE, JNull, pos >>
      Starts(word) == /\ pos + Len(word) - 1 <= Len(text)
                      /\ SubSeq(text, pos, pos + Len(word) - 1) = word
      RECURSIVE Digits(_)
      Digits(i) == IF i <= Len(text) /\ IsDigit(text[i]) THEN Digits(i + 1) ELSE i
      first == IF pos <= Len(text) /\ text[pos] = "-" THEN pos + 1 ELSE pos
      last == IF first <= Len(text) /\ text[first] = "0" THEN first + 1 ELSE Digits(first)
  IN  IF pos > Len(text) THEN failed
      ELSE IF text[pos] = "\""
           THEN The({ << s[1], JStr(s[2]), s[3] >> : s \in { JsonString(text, pos + 1, <<>>) } })
      ELSE IF text[pos] = "{"
           THEN LET inside == SkipWs(text, pos + 1)
                IN  IF inside <= Len(text) /\ text[inside] = "}"
                    THEN << TRUE, [type |-> "dict", value |-> EmptyDir], inside + 1 >>
                    ELSE JsonMembers(text, inside, EmptyDir)
      ELSE IF Starts(<< "n", "u", "l", "l" >>) THEN << TRUE, JNull, pos + 4 >>
      ELSE IF Starts(<< "t", "r", "u", "e" >>)
           THEN << TRUE, [type |-> "bool", value |-> << "T", "r", "u", "e" >>], pos + 4 >>
      ELSE IF Starts(<< "f", "a", "l", "s", "e" >>)
           THEN << TRUE, [type |-> "bool", value |-> << "F", "a", "l", "s", "e" >>], pos + 5 >>
      ELSE IF last > first
           THEN << TRUE, [type |-> "int", value |-> SubSeq(text, pos, last - 1)], last >>
      ELSE failed

\* the members of an object from the key at pos on; a repeated key keeps its
\* last value
JsonMembers(text, pos, members) ==
  LET failed == << FALSE, JNull, pos >>
      \* after the member: the end of the object, or a comma and the next key
      next(key, member, after) ==
        LET now == (DictKey(key[2]) :> member[2]) @@ members
        IN  IF after > Len(text) THEN failed
            ELSE IF text[after] = "}"
                 THEN << TRUE, [type |-> "dict", value |-> now], after + 1 >>
            ELSE IF text[after] = ","
                 THEN The({ JsonMembers(text, at, now) : at \in { SkipWs(text, after + 1) } })
            ELSE failed
      \* after the colon: the member
      value(key, colon) ==
        IF colon > Len(text) THEN failed
        ELSE IF text[colon] # ":" THEN failed
        ELSE The({ IF ~member[1] THEN failed
                   ELSE The({ next(key, member, after) :
                              after \in { SkipWs(text, member[3]) } }) :
                   member \in { JsonValue(text, SkipWs(text, colon + 1)) } })
  IN  IF pos > Len(text) THEN failed
      ELSE IF text[pos] # "\"" THEN failed
      ELSE The({ IF ~key[1] THEN failed
                 ELSE The({ value(key, colon) : colon \in { SkipWs(text, key[3]) } }) :
                 key \in { JsonString(text, pos + 1, <<>>) } })

\* json.loads(text): the decoded value, or raised for json.JSONDecodeError
json_loads(text) ==
  The({ IF v[1] /\ SkipWs(text, v[3]) = Len(text) + 1
        THEN [raised |-> FALSE, value |-> v[2]]
        ELSE [raised |-> TRUE, value |-> JNull] :
        v \in { JsonValue(text, SkipWs(text, 1)) } })

(***************************************************************************)
(* parse_ollama_response: the response text of the model is given, the     *)
(* steps of the call are its three strategies.  call.ret holds the         *)
(* position in the function and the value returned, NoAnalysis for None.   *)
(***************************************************************************)
\* the repaired text: \u\uXXXX becomes \uXXXX, then a \u in front of a
\* \uXXXX is dropped
cleaned(raw) ==
  LET hex == << "set", { "0", "1", "2", "3", "4", "5", "6", "7", "8", "9",
                         "a", "b", "c", "d", "e", "f", "A", "B", "C", "D", "E", "F" } >>
      u == << "lit", << "\\", "u" >> >>
  IN  The({ sub(<< "cat", << u, << "look", << "cat", << u, hex, hex, hex, hex >> >> >> >> >>,
                <<>>, once) :
            once \in { sub(<< "cat", << u, u, << "grp", << "cat", << hex, hex, hex, hex >> >> >> >> >>,
                           << "\\", "u" >>, raw) } })

\* the list json_patterns: a block fenced with the tag json, a fenced block,
\* a bare object
json_patterns ==
  LET ws == << "star", << "set", { " ", "\t", "\n", "\r" } >> >>
      fence == << "lit", << "grave", "grave", "grave" >> >>
      object == << "cat", << << "lit", << "{" >> >>,
                             << "star", << "not", { "{", "}" } >> >>,
                             << "lit", << "}" >> >> >> >>
  IN  << << "cat", << fence, << "lit", << "j", "s", "o", "n" >> >>, ws,
                      << "grp", object >>, ws, fence >> >>,
         << "cat", << fence, ws, << "grp", object >>, ws, fence >> >>,
         object >>

\* the candidates of one text in the order of the loops: pattern by pattern,
\* match by match
Candidates_bare_first(text) ==
  findall(json_patterns[3], text) \o findall(json_patterns[2], text)
    \o findall(json_patterns[1], text)

Candidates(text) ==
  findall(json_patterns[1], text) \o findall(json_patterns[2], text)
    \o findall(json_patterns[3], text)

\* the first of the texts that json.loads decodes to a dict
RECURSIVE FirstDict(_)
FirstDict(texts) ==
  IF texts = <<>> THEN [found |-> FALSE, data |-> EmptyDir]
  ELSE The({ IF ~decoded.raised /\ decoded.value.type = "dict"
             THEN [found |-> TRUE, data |-> decoded.value.value]
             ELSE FirstDict(Tail(texts)) :
             decoded \in { json_loads(Head(texts)) } })

\* the patterns of _parse_markdown_response for a key, all under
\* re.IGNORECASE: the label in bold, the label at the start of a line, and for
\* the category the label followed by a word
patterns ==
  LET ws == << "star", << "set", { " ", "\t", "\n", "\r" } >> >>
      line == << "grp", << "lazy", << "not", { "\n" } >> >> >>
      end == << "alt", << << "lit", << "\n" >> >>, << "eol" >> >> >>
      stars == << "lit", << "*", "*" >> >>
      colon == << "lit", << ":" >> >>
      letters == { Ascii[i] : i \in 34..59 } \cup { Ascii[i] : i \in 66..91 }
                   \cup { "Ä", "Ö", "Ü", "ä", "ö", "ü" }
      bold(label) == << "cat", << stars, << "liti", label >>,
                                  << "star", << "set", { ":", "*" } >> >>, stars,
                                  ws, << "opt", colon >>, ws, line, end >> >>
      plain(label) == << "cat", << << "alt", << << "bol" >>, << "lit", << "\n" >> >> >> >>,
                                   ws, << "opt", << "set", { "-", "bullet" } >> >>, ws,
                                   << "liti", label >>, ws, colon, ws, line, end >> >>
      word(label) == << "cat", << << "liti", label >>,
                                  << "plus", << "set", { ":", " ", "\t", "\n", "\r" } >> >>,
                                  << "grp", << "cat", <<
                                     << "set", letters >>,
                                     << "plus", << "set", letters \cup { "ß", "-" } >> >> >> >> >> >> >>
  IN  [key \in { "kategorie", "absender", "patient" } |->
        IF key = "kategorie"
        THEN << bold(<< "K", "a", "t", "e", "g", "o", "r", "i", "e" >>), plain(<< "K", "a", "t", "e", "g", "o", "r", "i", "e" >>), word(<< "K", "a", "t", "e", "g", "o", "r", "i", "e" >>) >>
        ELSE IF key = "absender"
        THEN << bold(<< "A", "b", "s", "e", "n", "d", "e", "r" >>), plain(<< "A", "b", "s", "e", "n", "d", "e", "r" >>) >>
        ELSE << bold(<< "P", "a", "t", "i", "e", "n", "t" >>), plain(<< "P", "a", "t", "i", "e", "n", "t" >>) >>]

\* _parse_markdown_response(raw): per key the first pattern that matches gives
\* the value, trimmed of blanks and asterisks and of a remark in parentheses
\* at its end; the dict is returned when it holds a category
parse_markdown_response_needs_all(raw) ==
  LET remark == << "cat", << << "star", << "set", { " ", "\t", "\n", "\r" } >> >>,
                             << "lit", << "(" >> >>,
                             << "star", << "not", { "\n" } >> >>,
                             << "lit", << ")" >> >>,
                             << "star", << "set", { " ", "\t", "\n", "\r" } >> >>,
                             << "eol" >> >> >>
      \* the value made of group 1 of a match
      value(group) ==
        The({ sub(remark, <<>>, v) : v \in { strip(StripChars(strip(group), { "*" })) } })
      \* << the value >> of the first pattern of the key that matches, <<>>
      \* when none does
      search(key) ==
        The({ IF good = {} THEN <<>>
              ELSE << value((CHOOSE t \in good : \A u \in good : t[1] <= u[1])[2][1].group) >> :
              good \in { { t \in { << k, finditer(patterns[key][k], raw, 1) >> :
                                   k \in 1..Len(patterns[key]) } : Len(t[2]) > 0 } } })
      \* result, given the pairs << key, search(key) >> of the keys with a match
      result(found) ==
        [key \in { t[1] : t \in found } |-> JStr((CHOOSE t \in found : t[1] = key)[2][1])]
      return(found) ==
        IF /\ { t[1] : t \in found } = DOMAIN patterns
           /\ \E t \in found : t[1] = "kategorie" /\ t[2][1] # <<>>
        THEN [found |-> TRUE, data |-> result(found)]
        ELSE [found |-> FALSE, data |-> EmptyDir]
  IN  The({ return(found) :
            found \in { { t \in { << key, search(key) >> : key \in DOMAIN patterns } :
                          Len(t[2]) > 0 } } })

parse_markdown_response(raw) ==
  LET remark == << "cat", << << "star", << "set", { " ", "\t", "\n", "\r" } >> >>,
                             << "lit", << "(" >> >>,
                             << "star", << "not", { "\n" } >> >>,
                             << "lit", << ")" >> >>,
                             << "star", << "set", { " ", "\t", "\n", "\r" } >> >>,
                             << "eol" >> >> >>
      \* the value made of group 1 of a match
      value(group) ==
        The({ sub(remark, <<>>, v) : v \in { strip(StripChars(strip(group), { "*" })) } })
      \* << the value >> of the first pattern of the key that matches, <<>>
      \* when none does
      search(key) ==
        The({ IF good = {} THEN <<>>
              ELSE << value((CHOOSE t \in good : \A u \in good : t[1] <= u[1])[2][1].group) >> :
              good \in { { t \in { << k, finditer(patterns[key][k], raw, 1) >> :
                                   k \in 1..Len(patterns[key]) } : Len(t[2]) > 0 } } })
      \* result, given the pairs << key, search(key) >> of the keys with a match
      result(found) ==
        [key \in { t[1] : t \in found } |-> JStr((CHOOSE t \in found : t[1] = key)[2][1])]
      return(found) ==
        IF \E t \in found : t[1] = "kategorie" /\ t[2][1] # <<>>
        THEN [found |-> TRUE, data |-> result(found)]
        ELSE [found |-> FALSE, data |-> EmptyDir]
  IN  The({ return(found) :
            found \in { { t \in { << key, search(key) >> : key \in DOMAIN patterns } :
                          Len(t[2]) > 0 } } })

\* what the model answers
Responses ==
  { \* a JSON object, as asked for
    << "{", "\"", "k", "a", "t", "e", "g", "o", "r", "i", "e", "\"", ":", " ", "\"", "L", "a", "b", "o", "r", "\"", ",", " ", "\"", "a", "b", "s", "e", "n", "d", "e", "r", "\"", ":", " ", "\"", "D", "r", ".", " ", "X", "\"", ",", " ", "\"", "p", "a", "t", "i", "e", "n", "t", "\"", ":", " ", "\"", "M", "e", "i", "e", "r", "\"", "}" >>,
    \* a JSON object between blank lines
    << "\n", " ", "{", "\"", "K", "a", "t", "e", "g", "o", "r", "i", "e", "\"", ":", " ", "\"", "W", "e", "r", "b", "u", "n", "g", "\"", "}", "\n" >>,
    \* the empty object
    << "{", "}" >>,
    \* an object with an empty-value phrase
    << "{", "\"", "k", "a", "t", "e", "g", "o", "r", "i", "e", "\"", ":", " ", "\"", "k", ".", "A", ".", "\"", ",", " ", "\"", "p", "a", "t", "i", "e", "n", "t", "\"", ":", " ", "n", "u", "l", "l", "}" >>,
    \* an object that holds another object
    << "{", "\"", "k", "a", "t", "e", "g", "o", "r", "i", "e", "\"", ":", " ", "\"", "A", "r", "z", "t", "b", "r", "i", "e", "f", "\"", ",", " ", "\"", "e", "x", "t", "r", "a", "\"", ":", " ", "{", "\"", "k", "a", "t", "e", "g", "o", "r", "i", "e", "\"", ":", " ", "\"", "L", "a", "b", "o", "r", "\"", "}", "}" >>,
    \* doubled unicode escapes
    << "{", "\"", "k", "a", "t", "e", "g", "o", "r", "i", "e", "\"", ":", " ", "\"", "A", "r", "z", "t", "b", "r", "i", "e", "f", "\"", ",", " ", "\"", "a", "b", "s", "e", "n", "d", "e", "r", "\"", ":", " ", "\"", "D", "r", ".", " ", "M", "\\", "u", "\\", "u", "0", "0", "f", "c", "l", "l", "e", "r", "\"", "}" >>,
    \* tripled unicode escapes
    << "{", "\"", "a", "b", "s", "e", "n", "d", "e", "r", "\"", ":", " ", "\"", "D", "r", ".", " ", "M", "\\", "u", "\\", "u", "\\", "u", "0", "0", "f", "6", "l", "l", "e", "r", "\"", "}" >>,
    \* JSON that is no object
    << "\"", "L", "a", "b", "o", "r", "\"" >>,
    \* a number
    << "4", "2" >>,
    \* the empty text
    <<>>,
    \* a fenced block tagged json
    << "S", "u", "r", "e", ",", " ", "h", "e", "r", "e", " ", "i", "s", " ", "t", "h", "e", " ", "r", "e", "s", "u", "l", "t", ":", "\n", "grave", "grave", "grave", "j", "s", "o", "n", "\n", "{", "\"", "k", "a", "t", "e", "g", "o", "r", "i", "e", "\"", ":", "\"", "L", "a", "b", "o", "r", "\"", ",", "\"", "a", "b", "s", "e", "n", "d", "e", "r", "\"", ":", "\"", "D", "r", ".", " ", "X", "\"", ",", "\"", "p", "a", "t", "i", "e", "n", "t", "\"", ":", "\"", "M", "e", "i", "e", "r", "\"", "}", "\n", "grave", "grave", "grave" >>,
    \* a fenced block without tag
    << "grave", "grave", "grave", "\n", "{", "\"", "k", "a", "t", "e", "g", "o", "r", "i", "e", "\"", ":", " ", "\"", "R", "e", "z", "e", "p", "t", "\"", "}", "\n", "grave", "grave", "grave" >>,
    \* a bare object in prose
    << "E", "r", "g", "e", "b", "n", "i", "s", ":", " ", "{", "\"", "k", "a", "t", "e", "g", "o", "r", "i", "e", "\"", ":", " ", "\"", "W", "e", "r", "b", "u", "n", "g", "\"", "}", " ", "E", "n", "d", "e" >>,
    \* a bare object ahead of a fenced block
    << "{", "\"", "k", "a", "t", "e", "g", "o", "r", "i", "e", "\"", ":", " ", "\"", "L", "a", "b", "o", "r", "\"", "}", " ", "o", "d", "e", "r", " ", "grave", "grave", "grave", "j", "s", "o", "n", " ", "{", "\"", "k", "a", "t", "e", "g", "o", "r", "i", "e", "\"", ":", " ", "\"", "A", "r", "z", "t", "b", "r", "i", "e", "f", "\"", "}", " ", "grave", "grave", "grave" >>,
    \* a candidate that is no JSON ahead of one that is
    << "{", "k", "a", "t", "e", "g", "o", "r", "i", "e", "}", " ", "{", "\"", "k", "a", "t", "e", "g", "o", "r", "i", "e", "\"", ":", " ", "\"", "L", "a", "b", "o", "r", "\"", "}" >>,
    \* a fenced block with doubled escapes
    << "grave", "grave", "grave", "j", "s", "o", "n", "\n", "{", "\"", "a", "b", "s", "e", "n", "d", "e", "r", "\"", ":", " ", "\"", "D", "r", ".", " ", "M", "\\", "u", "\\", "u", "0", "0", "f", "c", "l", "l", "e", "r", "\"", "}", "\n", "grave", "grave", "grave" >>,
    \* a markdown line ahead of an object
    << "*", "*", "K", "a", "t", "e", "g", "o", "r", "i", "e", ":", "*", "*", " ", "A", "r", "z", "t", "b", "r", "i", "e", "f", "\n", "{", "\"", "k", "a", "t", "e", "g", "o", "r", "i", "e", "\"", ":", " ", "\"", "L", "a", "b", "o", "r", "\"", "}" >>,
    \* braces without JSON
    << "{", "k", "a", "t", "e", "g", "o", "r", "i", "e", ":", " ", "L", "a", "b", "o", "r", "}" >>,
    \* the category in bold
    << "*", "*", "K", "a", "t", "e", "g", "o", "r", "i", "e", ":", "*", "*", " ", "A", "r", "z", "t", "b", "r", "i", "e", "f" >>,
    \* the category in bold between sentences
    << "D", "a", "s", " ", "E", "r", "g", "e", "b", "n", "i", "s", ":", "\n", "*", "*", "K", "a", "t", "e", "g", "o", "r", "i", "e", ":", "*", "*", " ", "A", "r", "z", "t", "b", "r", "i", "e", "f", "\n", "M", "e", "h", "r", " ", "n", "i", "c", "h", "t", "." >>,
    \* three fields in bold
    << "*", "*", "K", "a", "t", "e", "g", "o", "r", "i", "e", ":", "*", "*", " ", "L", "a", "b", "o", "r", "\n", "*", "*", "A", "b", "s", "e", "n", "d", "e", "r", ":", "*", "*", " ", "D", "r", ".", " ", "M", "ü", "l", "l", "e", "r", "\n", "*", "*", "P", "a", "t", "i", "e", "n", "t", ":", "*", "*", " ", "M", "e", "i", "e", "r", " ", "(", "g", "e", "b", ".", " ", "1", "9", "5", "0", ")" >>,
    \* plain labels
    << "K", "a", "t", "e", "g", "o", "r", "i", "e", ":", " ", "A", "r", "z", "t", "b", "r", "i", "e", "f", "\n", "A", "b", "s", "e", "n", "d", "e", "r", ":", " ", "L", "a", "b", "o", "r", " ", "N", "o", "r", "d" >>,
    \* a list item
    << "-", " ", "K", "a", "t", "e", "g", "o", "r", "i", "e", ":", " ", "W", "e", "r", "b", "u", "n", "g" >>,
    \* the label inside a sentence
    << "D", "i", "e", " ", "K", "a", "t", "e", "g", "o", "r", "i", "e", " ", "A", "r", "z", "t", "b", "r", "i", "e", "f", " ", "p", "a", "s", "s", "t", "." >>,
    \* the colon inside the bold
    << "*", "*", "K", "A", "T", "E", "G", "O", "R", "I", "E", "*", "*", ":", " ", "L", "a", "b", "o", "r" >>,
    \* a sender without a category
    << "*", "*", "A", "b", "s", "e", "n", "d", "e", "r", ":", "*", "*", " ", "D", "r", ".", " ", "X" >>,
    \* a category that is only a remark
    << "*", "*", "K", "a", "t", "e", "g", "o", "r", "i", "e", ":", "*", "*", " ", "(", "u", "n", "k", "l", "a", "r", ")" >>,
    \* a category without a value
    << "*", "*", "K", "a", "t", "e", "g", "o", "r", "i", "e", ":", "*", "*", " ", "*", "*", "\n", "K", "a", "t", "e", "g", "o", "r", "i", "e", ":", " ", "L", "a", "b", "o", "r" >>,
    \* pure prose
    << "I", "c", "h", " ", "k", "a", "n", "n", " ", "d", "a", "s", " ", "B", "i", "l", "d", " ", "n", "i", "c", "h", "t", " ", "l", "e", "s", "e", "n", "." >> }

\* the configured eigener_name of a call: none, or a practice
ParseOwnNames == { <<>>, << "D", "r", ".", " ", "X" >> }

ParseInit ==
  /\ PipelineInit
  /\ \E raw \in Responses, eigener_name \in ParseOwnNames :
       call = [fn |-> "parse_ollama_response", args |-> << raw, eigener_name >>,
               returned |-> FALSE, ret |-> [at |-> "direct", value |-> NoAnalysis]]

\* the return of parse_ollama_response with a value
ParseReturn(value) ==
  call' = [call EXCEPT !.returned = TRUE, !.ret = [at |-> "returned", value |-> value]]

\* json.loads on the repaired text, then on the raw text
ParseDirect ==
  /\ call.fn = "parse_ollama_response" /\ ~call.returned /\ call.ret.at = "direct"
  /\ \E text \in { cleaned(call.args[1]) } :
       \E direct \in { FirstDict(<< text, call.args[1] >>) } :
         IF direct.found
         THEN ParseReturn(normalize_analysis(direct.data, call.args[2]))
         ELSE call' = [call EXCEPT !.ret.at = "embedded"]
  /\ UNCHANGED pipeline

\* json.loads on the candidates of the repaired text, then on those of the
\* raw text
ParseEmbedded ==
  /\ call.fn = "parse_ollama_response" /\ ~call.returned /\ call.ret.at = "embedded"
  /\ \E text \in { cleaned(call.args[1]) } :
       \E matches \in { Candidates(text) \o Candidates(call.args[1]) } :
         \E embedded \in { FirstDict(matches) } :
           IF embedded.found
           THEN ParseReturn(normalize_analysis(embedded.data, call.args[2]))
           ELSE call' = [call EXCEPT !.ret.at = "markdown"]
  /\ UNCHANGED pipeline

\* the fallback: _parse_markdown_response, and None when it fails too
ParseMarkdown ==
  /\ call.fn = "parse_ollama_response" /\ ~call.returned /\ call.ret.at = "markdown"
  /\ \E result \in { parse_markdown_response(call.args[1]) } :
       IF result.found
       THEN ParseReturn(normalize_analysis(result.data, call.args[2]))
       ELSE ParseReturn(NoAnalysis)
  /\ UNCHANGED pipeline

ParseNext == ParseDirect \/ ParseEmbedded \/ ParseMarkdown

SpecParse == ParseInit /\ [][ParseNext]_vars

(***************************************************************************)
(* The filing step with a processing log that cannot always be written:    *)
(* save_processing_log raises when the log file cannot be opened, and      *)
(* add_log_entry passes the exception on.  The call of add_log_entry after *)
(* the move stands inside the try block of the move.                       *)
(***************************************************************************)
\* steps 4 and 5: the move into Umbenannt succeeds, add_log_entry raises
\* inside the try block, and the add_log_entry of the handler succeeds
MoveOkLogFails ==
  /\ pc = "file"
  /\ LET new_filename == generate_new_filename(cur.analysis, cur.timestamp)
         dest_path == unique_filepath(listdir(fs, "umbenannt"), new_filename)
         final_name == dest_path
     IN  /\ fs' = move(fs, "eingang", cur.original_name, "umbenannt", dest_path)
         /\ log' = add_log_entry(cur.original_name, new_filename, TagMove,
                                 <<>>, <<>>, <<>>)
         /\ results' = Append(results, Result("move_error", final_name))
  /\ events' = Events3("move", "log_failed", "log")
  /\ pc' = "sleep"
  /\ UNCHANGED << pdfs, idx, cur, nextDoc, runs, fsAtBegin, fsAtScan, call >>

\* steps 4 and 5: the add_log_entry of the handler raises too, after a move
\* that succeeded or failed; the exception leaves process_single_pdf and
\* scan_and_process
MoveLogRaises ==
  /\ pc = "file"
  /\ LET new_filename == generate_new_filename(cur.analysis, cur.timestamp)
         dest_path == unique_filepath(listdir(fs, "umbenannt"), new_filename)
     IN  \E moved \in BOOLEAN :
           /\ fs' = IF moved
                    THEN move(fs, "eingang", cur.original_name, "umbenannt", dest_path)
                    ELSE fs
           /\ events' = Events3(IF moved THEN "move" ELSE "move_failed",
                                "log_failed", "log_failed")
  /\ pc' = "crashed"
  /\ UNCHANGED << log, pdfs, idx, results, cur, nextDoc, runs, fsAtBegin, fsAtScan, call >>

FilingNext ==
  \/ ScanStart
  \/ BeginPdf
  \/ BackupOk
  \/ BackupFail
  \/ RenderOk
  \/ RenderFail
  \/ AnalyzeOk
  \/ AnalyzeFail
  \/ MoveOk
  \/ MoveFail
  \/ MoveOkLogFails
  \/ MoveLogRaises
  \/ Sleep
  \/ ScanReturn

SpecFiling == EndpointInit /\ [][FilingNext]_vars

(***************************************************************************)
(* Vocabulary of the properties.                                           *)
(***************************************************************************)
\* process_single_pdf has returned for pdfs[idx]; its result is the last one
Returned == pc = "sleep"

\* process_single_pdf is between its first and its last step
InsidePdf == pc \in { "backup", "render", "analyze", "file" }

LastResult == results[Len(results)]

LastEntry == log[Len(log)]

\* the names under which a folder holds the document
NamesOf(fsys, directory, doc) ==
  { n \in DOMAIN fsys[directory] : fsys[directory][n] = doc }

\* the names a folder gained since the running invocation began
Added(directory) == DOMAIN fs[directory] \ DOMAIN fsAtBegin[directory]

\* a folder still holds every file it held when the invocation began
Kept(directory) ==
  \A n \in DOMAIN fsAtBegin[directory] :
    n \in DOMAIN fs[directory] /\ fs[directory][n] = fsAtBegin[directory][n]

\* the steps of the running invocation, in order
MyEvents == SelectSeq(events, LAMBDA e : e.i = idx)

Did(e) == \E k \in 1..Len(MyEvents) : MyEvents[k].ev = e

\* the log status that belongs to a result status
TagOf(status) ==
  CASE status = "success" -> TagSuccess
    [] status = "backup_error" -> TagBackup
    [] status = "conversion_error" -> TagConversion
    [] status = "analysis_error" -> TagAnalysis
    [] status = "move_error" -> TagMove

ArchiveName == cur.timestamp \o Underscore \o cur.original_name

\* name is filename, or filename with a counter before its extension
IsVariantOf(name, filename) ==
  \/ name = filename
  \/ \E k \in 1..(MaxRuns + 1) :
       name = splitext(filename)[1] \o Underscore \o DecStr(k) \o splitext(filename)[2]

(***************************************************************************)
(* C1: once process_single_pdf returns with a status other than            *)
(* backup_error, the original is no longer in the inbound folder; it is in *)
(* Umbenannt on success and in Fehler on conversion_error and              *)
(* analysis_error.  The code swallows a failed move into Fehler, and a     *)
(* failed move into Umbenannt leaves the file in place, so this fails.     *)
(***************************************************************************)
C1_OriginalLeavesInbound ==
  (Returned /\ LastResult.status # "backup_error") =>
     /\ NamesOf(fs, "eingang", cur.doc) = {}
     /\ LastResult.status = "success" => NamesOf(fs, "umbenannt", cur.doc) # {}
     /\ LastResult.status \in { "conversion_error", "analysis_error" } =>
          NamesOf(fs, "fehler", cur.doc) # {}

(***************************************************************************)
(* C2: every invocation of process_single_pdf appends exactly one entry to *)
(* the processing log before it returns, whatever its terminal state, and  *)
(* the status of that entry corresponds to the returned status.            *)
(***************************************************************************)
C2_OneLogEntryPerInvocation ==
  /\ InsidePdf => Len(log) = runs - 1
  /\ ~InsidePdf => Len(log) = runs
  /\ Returned =>
       /\ LastEntry.original = cur.original_name
       /\ LastEntry.status = TagOf(LastResult.status)

C2_Witness ==
  /\ Returned
  /\ runs = 2
  /\ LastResult.status = "move_error"
  /\ log[1].status = TagConversion

C4_BackupErrorLeavesOriginal ==
  /\ (Returned /\ Did("copy_failed")) => LastResult.status = "backup_error"
  /\ (Returned /\ LastResult.status = "backup_error") =>
       /\ NamesOf(fs, "eingang", cur.doc) = { cur.original_name }
       /\ fs["umbenannt"] = fsAtBegin["umbenannt"]
       /\ fs["fehler"] = fsAtBegin["fehler"]
       /\ ~Did("render")
       /\ ~Did("classify")

C4_Witness ==
  /\ Returned
  /\ LastResult.status = "backup_error"
  /\ idx = 2
  /\ DOMAIN fs["fehler"] # {}

(***************************************************************************)
(* C5: the archive copy strictly precedes every other stage: rendering,    *)
(* classification and any move happen only after a copy named              *)
(* <timestamp>_<original name> (made unique) is in Archiv; the copy leaves *)
(* the original in place; in every terminal state other than backup_error  *)
(* the archive copy still exists.                                          *)
(***************************************************************************)
C5_ArchiveFirst ==
  /\ \A k \in 1..Len(MyEvents) :
       MyEvents[k].ev \in { "render", "classify", "move", "move_failed" } =>
         MyEvents[1].ev = "copy"
  /\ (pc \in { "render", "analyze", "file" }
        \/ (Returned /\ LastResult.status # "backup_error")) =>
       /\ cur.archive_path \in DOMAIN fs["archiv"]
       /\ fs["archiv"][cur.archive_path] = cur.doc
       /\ IsVariantOf(cur.archive_path, ArchiveName)
       /\ cur.archive_path \notin DOMAIN fsAtBegin["archiv"]
       /\ (cur.archive_path # ArchiveName) => ArchiveName \in DOMAIN fsAtBegin["archiv"]
  /\ pc \in { "render", "analyze", "file" } =>
       NamesOf(fs, "eingang", cur.doc) = { cur.original_name }

C5_Witness ==
  /\ Returned
  /\ LastResult.status = "analysis_error"
  /\ cur.archive_path # ArchiveName

ErrorName(marker) ==
  marker \o Underscore \o cur.timestamp \o Underscore \o cur.original_name

\* the original (not the archive copy) went into Fehler under the marker name
RoutedToFehler(marker) ==
  /\ \E n \in Added("fehler") :
       /\ fs["fehler"][n] = cur.doc
       /\ IsVariantOf(n, ErrorName(marker))
  /\ NamesOf(fs, "eingang", cur.doc) = {}
  /\ cur.archive_path \in DOMAIN fs["archiv"]
  /\ fs["archiv"][cur.archive_path] = cur.doc

(***************************************************************************)
(* C6: the error exits route the original into Fehler under a stage-marker *)
(* name: on a failed rendering as KONVERTIERUNG_<timestamp>_<original      *)
(* name>, status conversion_error, the vision client never called; on a    *)
(* failed classification as ANALYSE_<timestamp>_<original name>, status    *)
(* analysis_error.  The move into Fehler can raise; the code swallows that *)
(* and reports the same status with the original still in inbound.         *)
(***************************************************************************)
C6_ErrorExitsRouteOriginal ==
  /\ (Returned /\ LastResult.status = "conversion_error") =>
       RoutedToFehler(KONVERTIERUNG) /\ ~Did("classify")
  /\ (Returned /\ LastResult.status = "analysis_error") =>
       RoutedToFehler(ANALYSE)

C8_MoveErrorLogsIntendedName ==
  /\ (Returned /\ Did("move_failed") /\ Did("classify") /\ cur.analysis # NoAnalysis) =>
       LastResult.status = "move_error"
  /\ (Returned /\ LastResult.status = "move_error") =>
       /\ LastEntry.status = TagMove
       /\ LastEntry.original = cur.original_name
       /\ LastEntry.neu = generate_new_filename(cur.analysis, cur.timestamp)
       /\ LastEntry.neu # <<>>
       /\ EndsWith(LastEntry.neu, cur.timestamp \o PdfExt)
       /\ NamesOf(fs, "umbenannt", cur.doc) = {}

\* a failed move whose intended name is the name of a file already filed
C8_Witness ==
  /\ Returned
  /\ LastResult.status = "move_error"
  /\ LastEntry.neu \in DOMAIN fs["umbenannt"]

(***************************************************************************)
(* C9: every log entry written for a failed document (backup, conversion,  *)
(* analysis or move error) has an empty resulting file name; only success  *)
(* entries carry a non-empty one.  Fails: analysis-error entries carry the *)
(* Fehler name and move-error entries the intended name.                   *)
(***************************************************************************)
C9_FailuresLogEmptyName ==
  \A k \in 1..Len(log) :
    (log[k].status # TagSuccess) <=> (log[k].neu = <<>>)

(***************************************************************************)
(* C9 as amended: backup-error and conversion-error entries have an empty  *)
(* resulting file name; analysis-error entries carry the name chosen for   *)
(* the file in Fehler, move-error entries the intended (generated) name    *)
(* and success entries the final name, none of them empty.                 *)
(***************************************************************************)
C9_ResultingNamePerStatus ==
  /\ \A k \in 1..Len(log) :
       /\ log[k].status \in { TagBackup, TagConversion } => log[k].neu = <<>>
       /\ log[k].status \in { TagAnalysis, TagMove, TagSuccess } => log[k].neu # <<>>
  /\ (Returned /\ LastResult.status = "analysis_error") =>
       /\ IsVariantOf(LastEntry.neu, ErrorName(ANALYSE))
       /\ LastEntry.neu \notin DOMAIN fsAtBegin["fehler"]
  /\ (Returned /\ LastResult.status = "move_error") =>
       LastEntry.neu = generate_new_filename(cur.analysis, cur.timestamp)
  /\ (Returned /\ LastResult.status = "success") =>
       LastEntry.neu \in Added("umbenannt")

C9_Witness ==
  /\ Len(log) = 2
  /\ log[1].status = TagConversion
  /\ log[2].status = TagAnalysis
  /\ Returned

(***************************************************************************)
(* C10: scan_and_process handles the documents one at a time in ascending  *)
(* file name order: no step of document k+1 starts before the terminal log *)
(* entry of document k has been written.                                   *)
(***************************************************************************)
C10_OneAtATimeInOrder ==
  /\ \A j, k \in 1..Len(pdfs) : j < k => StrLess(pdfs[j], pdfs[k])
  /\ \A k \in 1..Len(results) : results[k].original = pdfs[k]
  /\ \A p, q \in 1..Len(events) :
       p < q =>
         /\ events[p].i <= events[q].i
         /\ events[p].i < events[q].i =>
              \E l \in p..(q - 1) : events[l] = [i |-> events[p].i, ev |-> "log"]
  /\ InsidePdf =>
       /\ cur.original_name = pdfs[idx]
       /\ Len(results) = idx - 1
       /\ Len(log) = runs - 1
       /\ \A k \in 1..(idx - 1) :
            \E l \in 1..Len(events) : events[l] = [i |-> k, ev |-> "log"]

\* the second document of a scan is at its classification step
C10_Witness ==
  /\ pc = "analyze"
  /\ idx = 2
  /\ Len(pdfs) = 2

(***************************************************************************)
(* C11: a scan processes exactly the PDFs that were in the inbound folder  *)
(* when it enumerated the folder.  A PDF that arrives after the            *)
(* enumeration is not processed by that scan and stays untouched in the    *)
(* inbound folder; the next scan enumerates it.                            *)
(***************************************************************************)
\* the documents held by the files of the folders
DocsIn(fsys) == UNION { { fsys[d][n] : n \in DOMAIN fsys[d] } : d \in Dirs } \ {0}

\* the documents that arrived after the running scan enumerated the inbound root
ArrivedLate == (1..(nextDoc - 1)) \ DocsIn(fsAtScan)

PdfNames(fsys) == { f \in DOMAIN fsys["eingang"] : EndsWith(Lower(f), PdfExt) }

C11_Snapshot ==
  /\ pc # "idle" =>
       /\ { pdfs[k] : k \in 1..Len(pdfs) } = PdfNames(fsAtScan)
       /\ Len(pdfs) = Cardinality(PdfNames(fsAtScan))
       /\ \A d \in ArrivedLate :
            /\ Cardinality(NamesOf(fs, "eingang", d)) = 1
            /\ \A other \in Dirs \ {"eingang"} : NamesOf(fs, other, d) = {}
            /\ cur.doc # d
  /\ (InsidePdf \/ Returned) =>
       /\ cur.original_name = pdfs[idx]
       /\ cur.doc = fsAtScan["eingang"][pdfs[idx]]
  /\ pc = "idle" =>
       /\ Len(results) = Len(pdfs)
       /\ \A k \in 1..Len(pdfs) : results[k].original = pdfs[k]

\* a scan that begins enumerates every PDF the inbound folder holds
C11_NextScanEnumerates ==
  (pc = "idle" /\ pc' = "loop") =>
     PdfNames(fs) = { pdfs'[k] : k \in 1..Len(pdfs') }

C11_ScanProcessesEnumerated == []C11_Snapshot /\ [][C11_NextScanEnumerates]_vars

\* a document has been processed while a later arrival waits in the inbound folder
C11_Witness ==
  /\ Returned
  /\ ArrivedLate # {}
  /\ LastResult.status = "success"

(***************************************************************************)
(* C12: after n serialized add_log_entry calls on an initially empty log,  *)
(* the persisted log holds exactly the most recent min(n, 50) entries in   *)
(* the order of the calls, newest last; its length never exceeds 50.       *)
(***************************************************************************)
C12_LogKeepsNewest ==
  call.fn = "add_log_entry" =>
    LET n == Len(call.args)
    IN  /\ Len(log) <= 50
        /\ Len(log) = IF n < 50 THEN n ELSE 50
        /\ \A i \in 1..Len(log) : log[i].original = call.args[n - Len(log) + i]

\* 60 calls: 50 entries are left, the 10 oldest are gone
C12_Witness ==
  /\ Len(call.args) = 60
  /\ Len(log) = 50
  /\ log[1].original = << "1", "1" >> \o PdfExt
  /\ log[50].original = << "6", "0" >> \o PdfExt

(***************************************************************************)
(* C13: for every raw field dictionary and every non-empty own identity,   *)
(* neither the sender nor the patient returned by normalize_analysis       *)
(* equals or contains (case-insensitively) the own-identity string; this   *)
(* holds for the values the filter resets as well as for those it passes.  *)
(***************************************************************************)
\* text contains name, letter case aside
ContainsIgnoringCase(text, name) == Contains(ToLower(text), ToLower(name))

NormalizeReturned == call.fn = "normalize_analysis" /\ call.returned

C13_NoIdentityInSenderOrPatient ==
  (NormalizeReturned /\ call.args[2] # <<>>) =>
     /\ ~ContainsIgnoringCase(call.ret.absender, call.args[2])
     /\ ~ContainsIgnoringCase(call.ret.patient, call.args[2])

\* C13 as the code has it: the patient never contains the own identity, and
\* the sender either does not contain it or is the sentinel Unbekannt
C13_IdentityFilteredOrSentinel ==
  (NormalizeReturned /\ call.args[2] # <<>>) =>
     /\ call.ret.absender = Unbekannt \/ ~ContainsIgnoringCase(call.ret.absender, call.args[2])
     /\ ~ContainsIgnoringCase(call.ret.patient, call.args[2])

\* a sender that held the complete own identity has been reset
C13_Witness ==
  /\ NormalizeReturned
  /\ call.args[2] = << "D", "r", ".", " ", "L", "i" >>
  /\ "absender" \in DOMAIN call.args[1]
  /\ ContainsIgnoringCase(str(call.args[1]["absender"]), call.args[2])
  /\ call.ret.absender = Unbekannt

(***************************************************************************)
(* C14: unique_filepath returns directory/filename when that path does not *)
(* exist; otherwise it returns directory/<base>_<k><ext> for the smallest  *)
(* k >= 1 whose path does not exist.  The returned path never names an     *)
(* existing file, so it differs from every file already in the directory.  *)
(***************************************************************************)
C14_SmallestFreeName ==
  (call.fn = "unique_filepath" /\ call.returned) =>
     LET directory == call.args[1]
         filename == call.args[2]
     IN  /\ call.ret \notin directory
         /\ filename \notin directory => call.ret = filename
         /\ filename \in directory =>
              \E k \in 1..(Cardinality(directory) + 1) :
                 /\ call.ret = Numbered(filename, k)
                 /\ \A j \in 1..(k - 1) : Numbered(filename, j) \in directory

\* f.pdf and f_1.pdf exist: f_2.pdf is returned
C14_Witness ==
  /\ call.fn = "unique_filepath"
  /\ call.returned
  /\ call.args[2] = << "f", ".", "p", "d", "f" >>
  /\ { << "f", ".", "p", "d", "f" >>, << "f", "_", "1", ".", "p", "d", "f" >> } \subseteq call.args[1]
  /\ call.ret = << "f", "_", "2", ".", "p", "d", "f" >>

(***************************************************************************)
(* C15: sanitize_filename is idempotent: applied to its own result it      *)
(* returns that result unchanged.                                          *)
(***************************************************************************)
SanitizeReturned == call.fn = "sanitize_filename" /\ call.returned

C15_SanitizeIdempotent ==
  SanitizeReturned => sanitize_filename(call.ret) = call.ret

\* a name that all three steps of the function changed
C15_Witness ==
  /\ SanitizeReturned
  /\ call.args[1] = << " ", "/", "a" >>
  /\ call.ret = << "a" >>

(***************************************************************************)
(* C16: the result of sanitize_filename holds only characters of           *)
(* [A-Za-z0-9_.-], does not begin or end with an underscore and has no two *)
(* adjacent underscores.                                                   *)
(***************************************************************************)
IsAsciiSafe(c) ==
  IsDigit(c) \/ IsUpper(c) \/ IsLowerAscii(c) \/ c = "_" \/ c = "." \/ c = "-"

UnderscoresTidy(s) ==
  /\ s # <<>> => s[1] # "_" /\ s[Len(s)] # "_"
  /\ \A i \in 1..(Len(s) - 1) : ~(s[i] = "_" /\ s[i + 1] = "_")

C16_AsciiSafeOutput ==
  SanitizeReturned =>
    /\ \A i \in 1..Len(call.ret) : IsAsciiSafe(call.ret[i])
    /\ UnderscoresTidy(call.ret)

\* C16 as the code has it: letters outside ASCII are kept as well; every
\* other character of the result is an ASCII letter, a digit, underscore, dot
\* or hyphen, and the underscores are tidy
C16_SafeOutput ==
  SanitizeReturned =>
    /\ \A i \in 1..Len(call.ret) :
         IsAsciiSafe(call.ret[i]) \/ call.ret[i] \in UnicodeLetters
    /\ \A i \in 1..Len(call.ret) :
         \E j \in 1..Len(call.args[1]) : call.args[1][j] = call.ret[i] \/ call.ret[i] = "_"
    /\ UnderscoresTidy(call.ret)

\* a letter outside ASCII is kept, the characters around it are replaced
C16_Witness ==
  /\ SanitizeReturned
  /\ call.args[1] = << "/", "ü", " " >>
  /\ call.ret = << "ü" >>

(***************************************************************************)
(* C17: for the advertisement category (Werbung, matched without regard to *)
(* letter case) generate_new_filename returns exactly                      *)
(* Werbung_<timestamp>.pdf, whatever the sender and the patient are.       *)
(***************************************************************************)
GenerateReturned == call.fn = "generate_new_filename" /\ call.returned

IsWerbung(kat) == ToLower(kat) = << "w", "e", "r", "b", "u", "n", "g" >>

IsArztbrief(kat) == ToLower(kat) = << "a", "r", "z", "t", "b", "r", "i", "e", "f" >>

C17_WerbungName ==
  (GenerateReturned /\ IsWerbung(call.args[1].kategorie)) =>
     call.ret = << "W", "e", "r", "b", "u", "n", "g", "_" >> \o call.args[2] \o PdfExt

\* an advertisement in capital letters that names a sender and a patient
C17_Witness ==
  /\ GenerateReturned
  /\ call.args[1].kategorie = << "W", "E", "R", "B", "U", "N", "G" >>
  /\ call.args[1].absender = << "M", "u", "e", "l", "l", "e", "r" >>
  /\ call.args[1].patient = << "S", "c", "h", "m", "i", "d", "t" >>

(***************************************************************************)
(* C18: for the letter category (Arztbrief) the sender is split on         *)
(* whitespace.  With two or more tokens the first is the specialty and the *)
(* others, joined by underscores, are the name; with one token the         *)
(* specialty is Arzt and the token is the name, left out when the sender   *)
(* is Unbekannt.  The patient is appended only when it is not empty, and   *)
(* the timestamp is always last.                                           *)
(***************************************************************************)
\* the component, when it is there
Optional(component) == IF component = <<>> THEN <<>> ELSE << component >>

EndsWithTimestamp(filename, timestamp) ==
  EndsWith(filename, Underscore \o timestamp \o PdfExt)

C18_ArztbriefName ==
  (GenerateReturned /\ IsArztbrief(call.args[1].kategorie)) =>
     LET tokens == split(call.args[1].absender)
         specialty == IF Len(tokens) >= 2 THEN tokens[1] ELSE Arzt
         name == IF Len(tokens) >= 2 THEN Join(Tail(tokens), Underscore)
                 ELSE IF Len(tokens) = 1 /\ call.args[1].absender # Unbekannt THEN tokens[1]
                 ELSE <<>>
         components == << Arztbrief, specialty >> \o Optional(name)
                         \o Optional(call.args[1].patient) \o << call.args[2] >>
     IN  /\ call.ret = sanitize_filename(Join(components, Underscore) \o PdfExt)
         /\ EndsWithTimestamp(call.ret, call.args[2])
         /\ SubSeq(call.ret, 1, 10) = Arztbrief \o Underscore

\* the example of the scheme: Arztbrief_Kardiologe_Mueller_Schmidt_<timestamp>.pdf
C18_Witness ==
  /\ GenerateReturned
  /\ call.args[1] = [kategorie |-> Arztbrief,
                     absender |-> << "K", "a", "r", "d", "i", "o", "l", "o", "g", "e", " ",
                                     "M", "u", "e", "l", "l", "e", "r" >>,
                     patient |-> << "S", "c", "h", "m", "i", "d", "t" >>]
  /\ call.ret = << "A", "r", "z", "t", "b", "r", "i", "e", "f", "_",
                   "K", "a", "r", "d", "i", "o", "l", "o", "g", "e", "_",
                   "M", "u", "e", "l", "l", "e", "r", "_",
                   "S", "c", "h", "m", "i", "d", "t", "_" >> \o call.args[2] \o PdfExt

(***************************************************************************)
(* C19: for every category other than advertisement and letter the name is *)
(* <category>_<sender>_<patient>_<timestamp>.pdf, sanitized; the sender is *)
(* left out exactly when it is Unbekannt or empty, the patient exactly     *)
(* when it is empty.                                                       *)
(***************************************************************************)
C19_OtherCategoryName ==
  (GenerateReturned /\ ~IsWerbung(call.args[1].kategorie) /\ ~IsArztbrief(call.args[1].kategorie)) =>
     LET sender == IF call.args[1].absender = Unbekannt THEN <<>> ELSE call.args[1].absender
         components == << call.args[1].kategorie >> \o Optional(sender)
                         \o Optional(call.args[1].patient) \o << call.args[2] >>
     IN  /\ call.ret = sanitize_filename(Join(components, Underscore) \o PdfExt)
         /\ EndsWithTimestamp(call.ret, call.args[2])

\* a laboratory report with a sender and a patient
C19_Witness ==
  /\ GenerateReturned
  /\ call.args[1] = [kategorie |-> Labor,
                     absender |-> << "M", "u", "e", "l", "l", "e", "r" >>,
                     patient |-> << "A", " ", "B" >>]
  /\ call.ret = << "L", "a", "b", "o", "r", "_", "M", "u", "e", "l", "l", "e", "r", "_",
                   "A", "_", "B", "_" >> \o call.args[2] \o PdfExt

(***************************************************************************)
(* C20: analyze_image_with_ollama never raises because of the model        *)
(* endpoint.  A connection failure, a timeout, an HTTP error status, a     *)
(* malformed response body and any other transport error each make it      *)
(* return None, and process_single_pdf then ends with the status           *)
(* analysis_error instead of crashing.                                     *)
(***************************************************************************)
C20_EndpointFailureIsAnalysisError ==
  /\ pc # "crashed"
  /\ (call.fn = "analyze_image_with_ollama" /\ call.args[1].kind \in EndpointFailures) =>
       /\ ~call.ret.raised
       /\ call.ret.none
  /\ (Returned /\ Did("classify") /\ call.fn = "analyze_image_with_ollama"
        /\ call.args[1].kind \in EndpointFailures) =>
       /\ LastResult.status = "analysis_error"
       /\ LastEntry.status = TagAnalysis
       /\ LastEntry.original = cur.original_name

\* the endpoint answered with an HTTP error status and the invocation returned
C20_Witness ==
  /\ Returned
  /\ Did("classify")
  /\ call.fn = "analyze_image_with_ollama"
  /\ call.args[1].kind = "http_error"
  /\ LastResult.status = "analysis_error"
  /\ NamesOf(fs, "fehler", cur.doc) # {}

(***************************************************************************)
(* C21: scan_and_process never picks up a file of Fehler; only the retry   *)
(* operation returns such files to the inbound root, and it strips the     *)
(* stage marker: a file routed to Fehler as ANALYSE_<timestamp>_<name> or  *)
(* KONVERTIERUNG_<timestamp>_<name> reappears in the inbound root under    *)
(* exactly <name> when no file of that name is there (otherwise under a    *)
(* unique variant, nothing being overwritten), so that routing to Fehler   *)
(* followed by retry is a round trip on the file name.                     *)
(***************************************************************************)
\* the stage markers with a time stamp, as they begin a name in Fehler
MarkerPrefixes ==
  { marker \o Underscore \o TimestampStr(t) \o Underscore :
      marker \in { ANALYSE, KONVERTIERUNG }, t \in Times }

\* the name in Fehler without its marker and time stamp
Stripped(f) ==
  IF \E prefix \in MarkerPrefixes : SubSeq(f, 1, Len(prefix)) = prefix
  THEN LET prefix == CHOOSE q \in MarkerPrefixes : SubSeq(f, 1, Len(q)) = q
       IN  SubSeq(f, Len(prefix) + 1, Len(f))
  ELSE f

\* the file f of Fehler holds a document that arrived under the name original
RoutedFor(f, original) ==
  \E prefix \in MarkerPrefixes : IsVariantOf(f, prefix \o original)

\* the files that leave Fehler in a step
Leaving == DOMAIN fs["fehler"] \ DOMAIN fs'["fehler"]

\* the names under which the document of the file f of Fehler is new in the
\* inbound root after a step
BackAs(f) ==
  NamesOf(fs', "eingang", fs["fehler"][f]) \ DOMAIN fs["eingang"]

C21_RoundTripStep ==
  \A f \in Leaving, original \in InboundNames :
    RoutedFor(f, original) =>
      /\ Cardinality(BackAs(f)) = 1
      /\ \A name \in BackAs(f) :
           /\ IsVariantOf(name, original)
           /\ (/\ original \notin DOMAIN fs["eingang"]
               /\ \A g \in Leaving \ {f} : ~RoutedFor(g, original)) => name = original

C21_RetryRoundTrip == [][C21_RoundTripStep]_vars

\* C21 as the code has it: the name that comes back is the name in Fehler
\* without marker and time stamp (which is the original name only when the
\* name in Fehler needed no counter), unless a file of the inbound root or
\* another file of the same retry has that name: then it is a variant of it
C21_StripStep ==
  /\ \A f \in Leaving :
       /\ pc = "idle" /\ pc' = "idle"
       /\ UNCHANGED << log, pdfs, results, runs >>
       /\ Cardinality(BackAs(f)) = 1
       /\ \A name \in BackAs(f) :
            /\ IsVariantOf(name, Stripped(f))
            /\ (/\ Stripped(f) \notin DOMAIN fs["eingang"]
                /\ \A g \in Leaving \ {f} : Stripped(f) \notin BackAs(g)) => name = Stripped(f)
  /\ Leaving # {} =>
       \A n \in DOMAIN fs["eingang"] :
          n \in DOMAIN fs'["eingang"] /\ fs'["eingang"][n] = fs["eingang"][n]
  /\ (pc # "idle" \/ pc' # "idle") =>
       \A f \in DOMAIN fs["fehler"] :
          f \in DOMAIN fs'["fehler"] /\ fs'["fehler"][f] = fs["fehler"][f]

C21_RetryStripsMarker == [][C21_StripStep]_vars

\* retry has brought back a document whose name in Fehler carried a counter:
\* it lies in the inbound root as a_1.pdf
C21_Witness ==
  /\ pc = "idle"
  /\ << "a", "_", "1", ".", "p", "d", "f" >> \in DOMAIN fs["eingang"]
  /\ << "a", ".", "p", "d", "f" >> \notin DOMAIN fs["eingang"]

(***************************************************************************)
(* C22: add_log_entry reads, appends, truncates and persists without       *)
(* atomicity.  When the calls of two writers are serialized, both entries  *)
(* are in the persisted log; when their load and persist steps interleave, *)
(* a state is reachable in which one of the two entries is missing.        *)
(***************************************************************************)
\* the position of a step of a writer in the order of steps
StepAt(w, ev) == CHOOSE k \in 1..Len(events) : events[k] = [i |-> w, ev |-> ev]

\* one writer persisted before the other began to read
Serialized ==
  \E first, second \in Writers :
     first # second /\ StepAt(first, "dump") < StepAt(second, "load")

InLog(w) == \E k \in 1..Len(log) : log[k] = WriterEntry(w)

BothDone == call.fn = "add_log_entry" /\ call.returned

C22_SerializedKeepsBothEntries ==
  BothDone =>
     /\ Serialized =>
          /\ \A w \in Writers : InLog(w)
          /\ Len(log) = IF Len(call.args[1]) + 2 < 50 THEN Len(call.args[1]) + 2 ELSE 50
     /\ ~Serialized => \E w \in Writers : ~InLog(w)
     /\ \E w \in Writers : InLog(w)

\* both writers read before either persisted: the entry of the first is lost
C22_Witness ==
  /\ BothDone
  /\ ~Serialized
  /\ ~InLog(1)
  /\ InLog(2)
  /\ Len(call.args[1]) = 1

(***************************************************************************)
(* C23: with a non-empty own identity, normalize_analysis resets the       *)
(* sender to Unbekannt exactly when the sender (after the sentinels were   *)
(* normalized) contains, letter case aside, the complete identity or one   *)
(* of its significant tokens: length >= 3 after stripping '.' and ',', and *)
(* not a title, abbreviation or address word.  The patient is reset to the *)
(* empty string under the same test.  A sender matching neither is         *)
(* returned unchanged.                                                     *)
(***************************************************************************)
\* the titles, abbreviations and address words that are no significant tokens
Stoplist ==
  { << "d", "r" >>, << "m", "e", "d" >>, << "p", "r", "o", "f" >>, << "s", "t", "r" >>,
    << "h", "u", "t", "t", "e", "n", "s", "t", "r" >>, << "p", "r", "a", "x", "i", "s" >>,
    << "h", "e", "r", "r" >>, << "f", "r", "a", "u" >> }

\* the significant tokens of the own identity
SignificantTokens(name) ==
  { token \in { StripChars(split(name)[i], { ".", "," }) : i \in 1..Len(split(name)) } :
      Len(token) >= 3 /\ ToLower(token) \notin Stoplist }

MatchesIdentity(text, name) ==
  \/ ContainsIgnoringCase(text, name)
  \/ \E token \in SignificantTokens(name) : ContainsIgnoringCase(text, token)

\* the value the code reads for a field: under the first of the keys that is
\* there, the default when none is
RawValue(data, keys, default) ==
  IF \E i \in 1..Len(keys) : keys[i] \in DOMAIN data
  THEN LET first == CHOOSE i \in 1..Len(keys) :
                      keys[i] \in DOMAIN data /\ \A j \in 1..(i - 1) : keys[j] \notin DOMAIN data
       IN  strip(str(data[keys[first]]))
  ELSE default

\* the value after the sentinels for "no value" were normalized
WithoutSentinel(value, default) ==
  IF ToLower(value) \in empty_values THEN default ELSE value

SenderRead == WithoutSentinel(RawValue(call.args[1], << "absender", "Absender" >>, Unbekannt), Unbekannt)

PatientRead == WithoutSentinel(RawValue(call.args[1], << "patient", "Patient" >>, <<>>), <<>>)

C23_ResetExactlyOnMatch ==
  (NormalizeReturned /\ call.args[2] # <<>>) =>
     /\ MatchesIdentity(SenderRead, call.args[2]) => call.ret.absender = Unbekannt
     /\ ~MatchesIdentity(SenderRead, call.args[2]) => call.ret.absender = SenderRead
     /\ MatchesIdentity(PatientRead, call.args[2]) => call.ret.patient = <<>>
     /\ ~MatchesIdentity(PatientRead, call.args[2]) => call.ret.patient = PatientRead
     /\ SenderRead = << "D", "r", ".", " ", "M", "ü", "l", "l", "e", "r" >> =>
          call.ret.absender = SenderRead

\* the example: the sender Dr. med. Florian Rasche matches a token of the
\* identity of DEFAULT_CONFIG and is reset
C23_Witness ==
  /\ NormalizeReturned
  /\ Len(call.args[2]) > 30
  /\ SenderRead = << "D", "r", ".", " ", "m", "e", "d", ".", " ", "F", "l", "o", "r", "i", "a", "n",
                     " ", "R", "a", "s", "c", "h", "e" >>
  /\ ~ContainsIgnoringCase(SenderRead, call.args[2])
  /\ call.ret.absender = Unbekannt

(***************************************************************************)
(* C26: normalize_analysis accepts the keys of the decoded JSON object in  *)
(* any letter case: for each of the three fields, a value given under any  *)
(* letter-case variant of the key (kategorie / Kategorie / KATEGORIE,      *)
(* likewise absender and patient) is used as the raw value of the field    *)
(* instead of the default.                                                 *)
(***************************************************************************)
\* the value of a field after the filter of the own identity
Filtered(value, name, reset) ==
  IF name # <<>> /\ MatchesIdentity(value, name) THEN reset ELSE value

\* what normalize_analysis returns when the fields are read under the keys
NormalizedFrom(data, name, kategorie_keys, absender_keys, patient_keys) ==
  [kategorie |-> WithoutSentinel(RawValue(data, kategorie_keys, Befund), Befund),
   absender |-> Filtered(WithoutSentinel(RawValue(data, absender_keys, Unbekannt), Unbekannt),
                         name, Unbekannt),
   patient |-> Filtered(WithoutSentinel(RawValue(data, patient_keys, <<>>), <<>>), name, <<>>)]

C26_KeysInAnyCase ==
  NormalizeReturned =>
    call.ret = NormalizedFrom(call.args[1], call.args[2],
                              << "kategorie", "Kategorie", "KATEGORIE" >>,
                              << "absender", "Absender", "ABSENDER" >>,
                              << "patient", "Patient", "PATIENT" >>)

\* C26 as the code has it: each field is read under its key in lower case
\* or, when that is absent, under the key with a capital initial; a value
\* under any other spelling of the key is not read and the default is used
C26_KeysInTwoSpellings ==
  NormalizeReturned =>
    /\ call.ret = NormalizedFrom(call.args[1], call.args[2],
                                 << "kategorie", "Kategorie" >>,
                                 << "absender", "Absender" >>,
                                 << "patient", "Patient" >>)
    /\ "KATEGORIE" \in DOMAIN call.args[1] => call.ret.kategorie = Befund
    /\ "ABSENDER" \in DOMAIN call.args[1] => call.ret.absender = Unbekannt
    /\ "PATIENT" \in DOMAIN call.args[1] => call.ret.patient = <<>>

\* a sender given under ABSENDER is not read, one under Patient is
C26_Witness ==
  /\ NormalizeReturned
  /\ "ABSENDER" \in DOMAIN call.args[1]
  /\ call.args[1]["ABSENDER"] = JStr(<< "L", "a", "b", "o", "r", " ", "N", "o", "r", "d" >>)
  /\ "Patient" \in DOMAIN call.args[1]
  /\ call.ret.absender = Unbekannt
  /\ call.ret.patient = << "S", "c", "h", "m", "i", "d", "t" >>

(***************************************************************************)
(* Vocabulary of the parser properties.                                    *)
(***************************************************************************)
ParseReturned == call.fn = "parse_ollama_response" /\ call.returned

ParseAt(at) == call.fn = "parse_ollama_response" /\ ~call.returned /\ call.ret.at = at

\* json.loads makes a JSON object of the text
DecodesToObject(text) ==
  ~json_loads(text).raised /\ json_loads(text).value.type = "dict"

\* some text of the list decodes to a JSON object
SomeObject(texts) == \E k \in 1..Len(texts) : DecodesToObject(texts[k])

\* the classification made of the first text of the list that decodes to a
\* JSON object
FromFirstObject(texts, eigener_name) ==
  LET k == CHOOSE i \in 1..Len(texts) :
             DecodesToObject(texts[i]) /\ \A j \in 1..(i - 1) : ~DecodesToObject(texts[j])
  IN  normalize_analysis(json_loads(texts[k]).value.value, eigener_name)

\* strategy 1: the repaired text, then the raw text
DirectTexts(raw) == << cleaned(raw), raw >>

\* the fenced blocks of a text (tagged json, then any), then its bare objects
FencedThenBare(text) ==
  findall(json_patterns[1], text) \o findall(json_patterns[2], text)
    \o findall(json_patterns[3], text)

\* strategy 2: the candidates of the repaired text, then those of the raw text
EmbeddedTexts(raw) == FencedThenBare(cleaned(raw)) \o FencedThenBare(raw)

(***************************************************************************)
(* C24: parse_ollama_response tries its strategies in a fixed order and    *)
(* returns the result of the first that succeeds: direct decoding of the   *)
(* repaired, then of the raw text; the embedded candidates (fenced blocks, *)
(* then bare objects), those of the repaired text before those of the raw  *)
(* text; the markdown scanner.  A later strategy is reached only when      *)
(* every earlier one yielded no JSON object.                               *)
(***************************************************************************)
C24_FirstStrategyWins ==
  LET raw == call.args[1]
      eigener_name == call.args[2]
      markdown == parse_markdown_response(raw)
  IN  /\ ParseAt("embedded") => ~SomeObject(DirectTexts(raw))
      /\ ParseAt("markdown") =>
           ~SomeObject(DirectTexts(raw)) /\ ~SomeObject(EmbeddedTexts(raw))
      /\ ParseReturned =>
           call.ret.value =
             IF SomeObject(DirectTexts(raw))
             THEN FromFirstObject(DirectTexts(raw), eigener_name)
             ELSE IF SomeObject(EmbeddedTexts(raw))
             THEN FromFirstObject(EmbeddedTexts(raw), eigener_name)
             ELSE IF markdown.found
             THEN normalize_analysis(markdown.data, eigener_name)
             ELSE NoAnalysis

\* a response whose leftmost bare object and whose fenced block give different
\* categories: the fenced block is returned
C24_Witness ==
  /\ ParseReturned
  /\ ~SomeObject(DirectTexts(call.args[1]))
  /\ LET bare == findall(json_patterns[3], call.args[1])
         fenced == findall(json_patterns[1], call.args[1])
     IN  /\ Len(bare) > 0 /\ Len(fenced) > 0
         /\ DecodesToObject(bare[1]) /\ DecodesToObject(fenced[1])
         /\ normalize_analysis(json_loads(bare[1]).value.value, call.args[2]).kategorie
              # call.ret.value.kategorie
         /\ normalize_analysis(json_loads(fenced[1]).value.value, call.args[2])
              = call.ret.value

(***************************************************************************)
(* C25: parse_ollama_response returns a parse failure exactly when no      *)
(* strategy succeeds: neither text decodes to a JSON object, no embedded   *)
(* candidate does, and the markdown scanner recovers no non-empty          *)
(* category.  A text that contains the line **Kategorie:** Arztbrief and   *)
(* no JSON parses to the category Arztbrief, with the sender and the       *)
(* patient at their defaults ("Unbekannt" and empty) when it names none;   *)
(* prose with none of the three labels and no JSON fails to parse.         *)
(***************************************************************************)
BoldArztbrief ==
  << "*", "*", "K", "a", "t", "e", "g", "o", "r", "i", "e", ":", "*", "*", " " >> \o Arztbrief

Labels ==
  { << "k", "a", "t", "e", "g", "o", "r", "i", "e" >>,
    << "a", "b", "s", "e", "n", "d", "e", "r" >>,
    << "p", "a", "t", "i", "e", "n", "t" >> }

NamesLabel(raw, label) == Contains(ToLower(raw), label)

HasNoJson(raw) == ~Contains(raw, << "{" >>)

PlacesOf(doc) ==
  { << d, n >> \in { "eingang", "umbenannt", "fehler" }
                     \X (DOMAIN fs["eingang"] \cup DOMAIN fs["umbenannt"]
                           \cup DOMAIN fs["fehler"]) :
      n \in NamesOf(fs, d, doc) }

C27_DocumentNeverVanishes ==
  Returned => \A doc \in 1..(nextDoc - 1) : Cardinality(PlacesOf(doc)) = 1

\* a classified document whose move into Umbenannt failed is still in the
\* inbound root, under its name
C27_Witness ==
  /\ Returned
  /\ LastResult.status = "move_error"
  /\ PlacesOf(cur.doc) = { << "eingang", cur.original_name >> }
  /\ \E doc \in 1..(nextDoc - 1) : NamesOf(fs, "fehler", doc) # {}

(***************************************************************************)
(* C28: scan_and_process and process_single_pdf never overwrite or delete  *)
(* a file of Archiv, Umbenannt or Fehler: during a scan the three folders  *)
(* keep every file they held, with its content, and what an invocation     *)
(* adds, the archive copy and the filed or rejected original, gets a name  *)
(* that was free, also when the archive, error or generated name is one    *)
(* that an earlier document got.                                           *)
(***************************************************************************)
C28_FoldersOnlyGrow ==
  /\ pc # "idle" =>
       \A d \in { "archiv", "umbenannt", "fehler" } :
         \A n \in DOMAIN fsAtScan[d] :
           n \in DOMAIN fs[d] /\ fs[d][n] = fsAtScan[d][n]
  /\ (InsidePdf \/ Returned) =>
       \A d \in { "archiv", "umbenannt", "fehler" } :
         /\ Kept(d)
         /\ \A n \in Added(d) : fs[d][n] = cur.doc
  /\ Returned =>
       /\ LastResult.status # "backup_error" =>
            Cardinality({ n \in Added("archiv") : fs["archiv"][n] = cur.doc }) = 1
       /\ NamesOf(fs, "umbenannt", cur.doc) \subseteq Added("umbenannt")
       /\ NamesOf(fs, "fehler", cur.doc) \subseteq Added("fehler")

\* two documents with the same classification in the same second: the second
\* is filed under the generated name with a counter, next to the first
C28_Witness ==
  /\ Returned
  /\ LastResult.status = "success"
  /\ LET new_filename == generate_new_filename(cur.analysis, cur.timestamp)
     IN  /\ new_filename \in DOMAIN fsAtBegin["umbenannt"]
         /\ new_filename \in DOMAIN fs["umbenannt"]
         /\ fs["umbenannt"][new_filename] # cur.doc
         /\ LastResult.new_name # new_filename
         /\ LastResult.new_name \in NamesOf(fs, "umbenannt", cur.doc)

(***************************************************************************)
(* C29: the returned status is faithful to the filesystem on the filing    *)
(* step: process_single_pdf returns move_error only if the original was    *)
(* not moved into Umbenannt and success only if it was, whatever the       *)
(* outcome of the move and of the log write that follows it inside the     *)
(* same try block.  Fails: when the move succeeds and the log write        *)
(* raises, the handler of the try block sets move_error although the file  *)
(* is in Umbenannt.                                                        *)
(***************************************************************************)
C29_StatusFaithfulOnFiling ==
  Returned =>
    /\ LastResult.status = "move_error" => NamesOf(fs, "umbenannt", cur.doc) = {}
    /\ LastResult.status = "success" => NamesOf(fs, "umbenannt", cur.doc) # {}

=============================================================================
